---------------------------- MODULE Spec2Model ----------------------------
(***************************************************************************)
(* Model of the host-side resource plane of the ECS agent:                 *)
(*   - the credential-spec task resource (status state machine, terminal   *)
(*     reason latch, Create, Cleanup, JSON restore)                        *)
(*     agent/taskresource/credentialspec/credentialspec_windows.go         *)
(*   - the ENI state manager  agent/eni/manager.go                         *)
(*                                                                         *)
(* Strings are sequences of tokens: a token is a separator (":" or "/")    *)
(* or a word that holds no separator, so that prefix tests, splits on a    *)
(* separator and base names are computed as the code computes them.        *)
(***************************************************************************)
EXTENDS Integers, Sequences, FiniteSets, TLC

(***************************************************************************)
(* Bounds of the model                                                     *)
(***************************************************************************)
\* number of engine drivers (goroutines) that call into one resource
NumDrivers == 2

Drivers == 1..NumDrivers

(***************************************************************************)
(* String helpers (package strings, package path/filepath)                 *)
(***************************************************************************)
HasPrefix(s, p) == Len(s) >= Len(p) /\ SubSeq(s, 1, Len(p)) = p

\* the suffix of s from position i on
From(s, i) == SubSeq(s, i, Len(s))

(***************************************************************************)
(* Resource status values (resourcestatus.ResourceStatus, an int32):       *)
(* NONE < CREATED < REMOVED                                                *)
(***************************************************************************)
CredentialSpecStatusNone == 0
CredentialSpecCreated == 1
CredentialSpecRemoved == 2

Status == {CredentialSpecStatusNone, CredentialSpecCreated, CredentialSpecRemoved}

\* task statuses (apitaskstatus.TaskStatus): NONE, PULLED, CREATED, RUNNING, STOPPED
TaskCreated == 2
TaskRunning == 3

VARIABLES
    \* ---- CredentialSpecResource fields
    taskARN,                  \* cs.taskARN
    executionCredentialsID,   \* cs.executionCredentialsID
    createdAt,                \* cs.createdAt, 0 is the zero time
    desiredStatus,            \* cs.desiredStatusUnsafe
    knownStatus,              \* cs.knownStatusUnsafe
    appliedStatus,            \* cs.appliedStatus
    requiredCredentialSpecs,  \* key set of cs.requiredCredentialSpecs
    credSpecMap,              \* cs.credSpecMap, a function key -> value
    terminalReason,           \* cs.terminalReason, <<>> is the empty string
    onceDone,                 \* cs.terminalReasonOnce: its done flag
    onceOwner,                \* cs.terminalReasonOnce: holder of its mutex, 0 if free
    \* ---- the file system under CredentialSpecResourceDir
    files,                    \* path -> [content, hist]
    leakedTemps,              \* whether a failed call left a temp file behind
    \* ---- one Create call per driver
    pc,                       \* where the driver's Create call is
    todo,                     \* keys the range loop has not visited yet
    cur,                      \* the key in hand: credSpecStr
    tempFile,                 \* the call's temp file: [content, hist]
    err,                      \* the error the call is failing with
    ret,                      \* what the call returned: "nil" or "err"
    \* ---- ENI StateManager
    enis,                     \* eniStateManager.enis: MAC -> device name
    links,                    \* the kernel's link table: device name -> hardware address
    events,                   \* watcher.Events: the fsnotify events not yet handled
    mgr,                      \* how far the manager's life cycle has got
    rpc,                      \* where each reconcileENIs goroutine is
    linkErr,                  \* reconcileENIs: whether its LinkList failed
    currentState,             \* reconcileENIs: the map built from the enumeration
    rtodo,                    \* reconcileENIs: keys its add loop has yet to visit
    rcur,                     \* reconcileENIs: the key its add loop is at
    alone,                    \* history: nothing else has touched enis during the pass
    ctxDone,                  \* the context given to BeginENIUpdate is cancelled
    watcher,                  \* eniStateManager.watcher: "nil", "open" or "closed"
    handler,                  \* the fsnotifyHandler goroutine
    \* ---- goroutines calling the manager's methods directly
    updateLock,               \* eniStateManager.updateLock: its write holder, or 0
    wpc,                      \* where each caller of add/removeDeviceWithMACAddress is
    wlocal,                   \* the map contents such a caller's map operation has read
    rdpc,                     \* the caller of GetAllENIs: "idle", or "holding" the result
    snap,                     \* the contents of the map GetAllENIs returned, at the return
    seen,                     \* what the caller last read in the returned map
    eniCall,                  \* history: the last direct call of a method of the manager
    \* ---- the manager's goroutines inside updateLock
    gpc,                      \* where each goroutine of the manager is in its lock section
    gmap,                     \* the map contents its map operation, or deviceExists, has read
    rlocks,                   \* the goroutines that hold updateLock for reading
    listed,                   \* InitStateManager: what its LinkList returned: [err, links]
    \* ---- the checkpoint of the resource and the caller of GetTerminalReason
    doc,                      \* the bytes MarshalJSON returned last: <<>> or <<document>>
    original,                 \* history: the fields of the resource those bytes were made of
    getter,                   \* the caller of GetTerminalReason: "idle" or "reading"
    \* ---- the cgroup controller
    cgroupsV1,                \* the paths of the cgroups that exist in the v1 hierarchy
    cgCall,                   \* history: the last call of the controller and its error
    \* ---- a task and its platform resources
    task,                     \* the api.Task: [Arn, cgroupEnabled, CgroupSpec]
    hostConfig,               \* the docker.HostConfig: [CgroupParent]
    prCall,                   \* history: the last call on the task's platform resources
    \* ---- the arn package called on its own
    arnStage,                 \* how far the test of Parse and String has got
    arnText,                  \* the string in hand
    arnParsed,                \* what Parse returned last: [err, ARN fields]
    arnOrig,                  \* history: the string or the ARN the round trip began with
    \* ---- ENIMonitor.Monitor and the goroutine it starts
    mpc,                      \* where the monitoring goroutine is
    shutdown,                 \* the caller's send on the shutdown channel
    addrChanged,              \* the kernel has signalled mon.overlap.HEvent
    tosend,                   \* Process: the events of this enumeration not yet sent
    notify,                   \* the events sent on the notify channel so far
    \* ---- package config on Windows: the gMSA capability
    gmsaEnv,                  \* os.Getenv("ECS_GMSA_SUPPORTED"): "" when unset
    joinInfo,                 \* what NetGetJoinInformation reports: [err, status]
    gmsaCall,                 \* history: the last call of parseGMSACapability
    \* ---- ApplyTransition, one call per driver
    transition,               \* the call: [stage, target, invoked, ret]
    \* ---- history of calls, for stating the claims
    lastCall,                 \* the last call on the status: [op, arg, ret, ...]
    grants                    \* SetAppliedStatus calls that returned true since
                              \* appliedStatus was last cleared by SetKnownStatus

statusVars == <<desiredStatus, knownStatus, appliedStatus>>
resVars == <<taskARN, executionCredentialsID, createdAt, requiredCredentialSpecs, credSpecMap>>
onceVars == <<terminalReason, onceDone, onceOwner>>
fsVars == <<files, leakedTemps>>
createVars == <<pc, todo, cur, tempFile, err, ret>>
histVars == <<lastCall, grants>>
ckptVars == <<doc, original, getter>>
cgVars == <<cgroupsV1, cgCall>>
platVars == <<task, hostConfig, prCall>>
arnVars == <<arnStage, arnText, arnParsed, arnOrig>>
lockVars == <<gpc, gmap, rlocks, listed>>
transVars == <<transition>>
monVars == <<mpc, shutdown, addrChanged, tosend, notify>>
cfgVars == <<gmsaEnv, joinInfo, gmsaCall>>
lifeVars == <<ctxDone, watcher, handler>>
workerVars == <<updateLock, wpc, wlocal>>
readerVars == <<rdpc, snap, seen>>
apiVars == <<workerVars, readerVars, eniCall>>
eniVars == <<enis, links, events, mgr, rpc, linkErr, currentState, rtodo, rcur, alone, lifeVars, apiVars>>
vars == <<statusVars, resVars, onceVars, fsVars, createVars, eniVars, histVars, ckptVars, cgVars, platVars, arnVars, lockVars, transVars, monVars, cfgVars>>

\* what the ENI state manager's own goroutines leave alone
notENI == <<statusVars, resVars, onceVars, fsVars, createVars, histVars, apiVars, ckptVars, cgVars, platVars, arnVars, lockVars, transVars, monVars, cfgVars>>

\* what a call on the resource's status leaves alone
notStatus == <<onceVars, fsVars, createVars, eniVars, ckptVars, cgVars, platVars, arnVars, lockVars, transVars, monVars, cfgVars>>

\* a counter that stops at 2: "more than one" is all the claims ask about
Bump(n) == IF n < 2 THEN n + 1 ELSE n

EmptyMap == [k \in {} |-> <<>>]


(***************************************************************************)
(* Status state machine                                                    *)
(***************************************************************************)
\* the history record of a call on the status: its arguments, its result,
\* the applied and known status it found, and a bit that every call flips
Made(op, arg, r) == [op |-> op, arg |-> arg, ret |-> r,
                     applied0 |-> appliedStatus, known0 |-> knownStatus,
                     flip |-> ~lastCall.flip]

NoGrants == [none |-> 0, real |-> 0]

\* mutant: the comparison is strict, an applied status equal to the known
\* one is not cleared
updateAppliedStatusUnsafe_Strict(knownStatusArg) ==
    IF appliedStatus = CredentialSpecStatusNone
    THEN appliedStatus
    ELSE IF appliedStatus < knownStatusArg
         THEN CredentialSpecStatusNone
         ELSE appliedStatus

\* mutant: the applied status is cleared whatever the known status is
updateAppliedStatusUnsafe_Always(knownStatusArg) ==
    CredentialSpecStatusNone

\* updateAppliedStatusUnsafe: the applied status after the known status
\* became knownStatusArg
updateAppliedStatusUnsafe(knownStatusArg) ==
    IF appliedStatus = CredentialSpecStatusNone
    THEN appliedStatus
    ELSE IF appliedStatus <= knownStatusArg
         THEN CredentialSpecStatusNone
         ELSE appliedStatus

\* SetKnownStatus, under cs.lock: what it assigns
SetKnownStatus(status) ==
    /\ knownStatus' = status
    /\ appliedStatus' = updateAppliedStatusUnsafe(status)

\* SetDesiredStatus, under cs.lock: what it assigns
SetDesiredStatus(status) ==
    desiredStatus' = status

\* SetAppliedStatus, under cs.lock: what it assigns; its result is
\* SetAppliedStatusResult
SetAppliedStatusResult == appliedStatus = CredentialSpecStatusNone

\* mutant: no test of a transition in flight
SetAppliedStatus_NoGate(status) ==
    /\ appliedStatus' = status
    /\ knownStatus' = knownStatus

\* mutant: the status is stored in the known status
SetAppliedStatus_WrongField(status) ==
    /\ knownStatus' = IF appliedStatus # CredentialSpecStatusNone
                      THEN knownStatus
                      ELSE status
    /\ appliedStatus' = appliedStatus

SetAppliedStatus(status) ==
    /\ appliedStatus' = IF appliedStatus # CredentialSpecStatusNone
                        THEN appliedStatus
                        ELSE status
    /\ knownStatus' = knownStatus

\* grants after a call that ran SetKnownStatus
GrantsAfterKnown ==
    IF appliedStatus' = CredentialSpecStatusNone THEN NoGrants ELSE grants

\* a driver calls SetKnownStatus(status)
CallSetKnownStatus(status) ==
    /\ SetKnownStatus(status)
    /\ lastCall' = Made("SetKnownStatus", <<status>>, TRUE)
    /\ grants' = GrantsAfterKnown
    /\ UNCHANGED <<desiredStatus, resVars, notStatus>>

\* a driver calls SetDesiredStatus(status)
CallSetDesiredStatus(status) ==
    /\ SetDesiredStatus(status)
    /\ lastCall' = Made("SetDesiredStatus", <<status>>, TRUE)
    /\ UNCHANGED <<knownStatus, appliedStatus, resVars, grants, notStatus>>

\* a driver calls SetAppliedStatus(status)
CallSetAppliedStatus(status) ==
    /\ SetAppliedStatus(status)
    /\ lastCall' = Made("SetAppliedStatus", <<status>>, SetAppliedStatusResult)
    /\ grants' = IF ~SetAppliedStatusResult THEN grants
                 ELSE IF status = CredentialSpecStatusNone
                      THEN [grants EXCEPT !.none = Bump(@)]
                      ELSE [grants EXCEPT !.real = Bump(@)]
    /\ UNCHANGED <<desiredStatus, resVars, notStatus>>

\* Initialize: a restored task below CREATED whose desired status is at most
\* RUNNING resets the known status to NONE
\* mutant: the desired status of the task is not looked at
InitializeResets_KnownOnly(taskKnownStatus, taskDesiredStatus) ==
    taskKnownStatus < TaskCreated

InitializeResets(taskKnownStatus, taskDesiredStatus) ==
    taskKnownStatus < TaskCreated /\ taskDesiredStatus <= TaskRunning

Initialize(taskKnownStatus, taskDesiredStatus) ==
    /\ IF InitializeResets(taskKnownStatus, taskDesiredStatus)
       THEN SetKnownStatus(CredentialSpecStatusNone)
       ELSE UNCHANGED <<knownStatus, appliedStatus>>
    /\ lastCall' = Made("Initialize", <<taskKnownStatus, taskDesiredStatus>>, TRUE)
    /\ grants' = IF InitializeResets(taskKnownStatus, taskDesiredStatus)
                 THEN GrantsAfterKnown ELSE grants
    /\ UNCHANGED <<desiredStatus, resVars, notStatus>>

\* SetCreatedAt, under cs.lock: the zero time is ignored
SetCreatedAt(t) ==
    createdAt' = IF t = 0 THEN createdAt ELSE t

(***************************************************************************)
(* UnmarshalJSON(b).  temp is the decoded CredentialSpecResourceJSON: a    *)
(* pointer or map field is a set, empty when the field is nil (absent or   *)
(* null) and {v} otherwise.                                                *)
(***************************************************************************)
UnmarshalJSON(temp) ==
    /\ IF temp.DesiredStatus # {}
       THEN \E s \in temp.DesiredStatus : SetDesiredStatus(s)
       ELSE UNCHANGED desiredStatus
    /\ IF temp.KnownStatus # {}
       THEN \E s \in temp.KnownStatus : SetKnownStatus(s)
       ELSE UNCHANGED <<knownStatus, appliedStatus>>
    /\ IF temp.CreatedAt # {} /\ temp.CreatedAt # {0}
       THEN \E t \in temp.CreatedAt : SetCreatedAt(t)
       ELSE UNCHANGED createdAt
    /\ IF temp.RequiredCredentialSpecs # {}
       THEN \E r \in temp.RequiredCredentialSpecs : requiredCredentialSpecs' = r
       ELSE UNCHANGED requiredCredentialSpecs
    /\ taskARN' = temp.TaskARN
    /\ executionCredentialsID' = temp.ExecutionCredentialsID
    /\ lastCall' = Made("UnmarshalJSON", <<temp.KnownStatus>>, TRUE)
    /\ grants' = IF temp.KnownStatus # {} THEN GrantsAfterKnown ELSE grants
    /\ UNCHANGED <<credSpecMap, notStatus>>

(***************************************************************************)
(* MarshalJSON.  The document is the JSON object json.Marshal writes for   *)
(* CredentialSpecResourceJSON: one member per json tag, a nil pointer or   *)
(* map as null.                                                            *)
(***************************************************************************)
\* CredentialSpecStatus.String() and its inverse in UnmarshalJSON of the status
StatusString(s) ==
    CASE s = CredentialSpecStatusNone -> "NONE"
      [] s = CredentialSpecCreated -> "CREATED"
      [] s = CredentialSpecRemoved -> "REMOVED"

StatusFromString(str) ==
    CHOOSE s \in Status : StatusString(s) = str

\* time.Time as RFC 3339 text and back; 0 is the zero time
Times == {0, 1, 2}

FormatTime(tm) ==
    CASE tm = 0 -> "0001-01-01T00:00:00Z"
      [] tm = 1 -> "2006-01-02T15:04:05Z"
      [] tm = 2 -> "2006-01-02T15:04:06Z"

ParseTime(str) == CHOOSE tm \in Times : FormatTime(tm) = str

\* json.Marshal of a pointer or map field: <<>> is null
MarshalField(field) ==
    IF field = {} THEN <<>> ELSE <<CHOOSE v \in field : TRUE>>

\* json.Unmarshal of a member into a pointer or map field
UnmarshalField(member) ==
    IF member = <<>> THEN {} ELSE {member[1]}

MapText(m) == [object |-> m]
MapValue(member) == member.object

Marshal(j) ==
    [taskARN |-> j.TaskARN,
     createdAt |-> MarshalField({FormatTime(v) : v \in j.CreatedAt}),
     desiredStatus |-> MarshalField({StatusString(v) : v \in j.DesiredStatus}),
     knownStatus |-> MarshalField({StatusString(v) : v \in j.KnownStatus}),
     credentialSpecResources |-> MarshalField({MapText(v) : v \in j.RequiredCredentialSpecs}),
     credSpecMap |-> MarshalField({MapText(v) : v \in j.CredSpecMap}),
     executionCredentialsID |-> j.ExecutionCredentialsID]

Unmarshal(b) ==
    [TaskARN |-> b.taskARN,
     CreatedAt |-> {ParseTime(m) : m \in UnmarshalField(b.createdAt)},
     DesiredStatus |-> {StatusFromString(m) : m \in UnmarshalField(b.desiredStatus)},
     KnownStatus |-> {StatusFromString(m) : m \in UnmarshalField(b.knownStatus)},
     RequiredCredentialSpecs |-> {MapValue(m) : m \in UnmarshalField(b.credentialSpecResources)},
     CredSpecMap |-> {MapValue(m) : m \in UnmarshalField(b.credSpecMap)},
     ExecutionCredentialsID |-> b.executionCredentialsID]

\* the bytes MarshalJSON returns
MarshalJSON ==
    Marshal([TaskARN |-> taskARN,
             CreatedAt |-> {createdAt},
             DesiredStatus |-> {desiredStatus},
             KnownStatus |-> {knownStatus},
             RequiredCredentialSpecs |-> {requiredCredentialSpecs},
             CredSpecMap |-> {credSpecMap},
             ExecutionCredentialsID |-> executionCredentialsID])

\* the fields a checkpoint is about
Fields ==
    [taskARN |-> taskARN,
     executionCredentialsID |-> executionCredentialsID,
     requiredCredentialSpecs |-> requiredCredentialSpecs,
     credSpecMap |-> credSpecMap,
     desiredStatus |-> desiredStatus,
     knownStatus |-> knownStatus,
     createdAt |-> createdAt]

\* a caller marshals the resource
CallMarshalJSON ==
    /\ doc' = <<MarshalJSON>>
    /\ original' = <<Fields>>
    /\ lastCall' = Made("MarshalJSON", <<>>, TRUE)
    /\ UNCHANGED <<statusVars, resVars, grants, getter, onceVars, fsVars, createVars, eniVars,
                   cgVars, platVars, arnVars, lockVars, transVars, monVars, cfgVars>>

\* a fresh resource, &CredentialSpecResource{}, takes the place of the old one
NewResource ==
    /\ doc # <<>>
    /\ \A d \in Drivers : pc[d] = "idle"
    /\ getter = "idle"
    /\ taskARN' = <<>>
    /\ executionCredentialsID' = ""
    /\ createdAt' = 0
    /\ desiredStatus' = CredentialSpecStatusNone
    /\ knownStatus' = CredentialSpecStatusNone
    /\ appliedStatus' = CredentialSpecStatusNone
    /\ requiredCredentialSpecs' = {}
    /\ credSpecMap' = EmptyMap
    /\ terminalReason' = ""
    /\ onceDone' = FALSE
    /\ onceOwner' = 0
    /\ lastCall' = Made("new", <<>>, TRUE)
    /\ grants' = NoGrants
    /\ UNCHANGED <<fsVars, createVars, eniVars, ckptVars, cgVars, platVars, arnVars, lockVars, transVars, monVars, cfgVars>>

\* the fresh resource loads the bytes
LoadCheckpoint ==
    /\ lastCall.op = "new"
    /\ UnmarshalJSON(Unmarshal(doc[1]))

\* a caller sets the creation time
CallSetCreatedAt(tm) ==
    /\ SetCreatedAt(tm)
    /\ lastCall' = Made("SetCreatedAt", <<tm>>, TRUE)
    /\ UNCHANGED <<statusVars, taskARN, executionCredentialsID, requiredCredentialSpecs,
                   credSpecMap, grants, notStatus>>

\* GetTerminalReason: the read of cs.terminalReason, no lock taken
GetTerminalReasonBegin ==
    /\ getter = "idle"
    /\ getter' = "reading"
    /\ UNCHANGED <<statusVars, resVars, onceVars, fsVars, createVars, eniVars, histVars,
                   doc, original, cgVars, platVars, arnVars, lockVars, transVars, monVars, cfgVars>>

GetTerminalReasonReturn ==
    /\ getter = "reading"
    /\ getter' = "idle"
    /\ UNCHANGED <<statusVars, resVars, onceVars, fsVars, createVars, eniVars, histVars,
                   doc, original, cgVars, platVars, arnVars, lockVars, transVars, monVars, cfgVars>>

\* mutant: the range loop stops after its first delete
clearCredentialSpec_FirstOnly ==
    credSpecMap' = IF credSpecMap = EmptyMap
                   THEN EmptyMap
                   ELSE LET first == CHOOSE k \in DOMAIN credSpecMap : TRUE
                        IN  [k \in DOMAIN credSpecMap \ {first} |-> credSpecMap[k]]

\* clearCredentialSpec / Cleanup: every entry of credSpecMap is deleted
clearCredentialSpec ==
    credSpecMap' = EmptyMap

Cleanup ==
    /\ clearCredentialSpec
    /\ UNCHANGED <<statusVars, taskARN, executionCredentialsID, createdAt,
                   requiredCredentialSpecs, histVars, notStatus>>


(***************************************************************************)
(* Strings of the credential-spec resource                                 *)
(***************************************************************************)
CredentialSpecColon == <<"credentialspec", ":">>     \* "credentialspec:"
CredentialSpecEquals == <<"credentialspec", "=">>    \* "credentialspec="
FileScheme == <<"file", ":", "/", "/">>              \* "file://"
arnPrefix == <<"arn", ":">>                          \* "arn:"
arnDelimiter == ":"
arnSections == 6
CredentialSpecResourceDir == <<"resourcedir">>

\* strings.Index: the first position where sep occurs in s, 0 if none
Index(s, sep) ==
    LET at == {i \in 1..(Len(s) - Len(sep) + 1) : SubSeq(s, i, i + Len(sep) - 1) = sep}
    IN  IF at = {} THEN 0 ELSE CHOOSE i \in at : \A j \in at : i <= j

\* strings.SplitAfterN(s, sep, 2): s cut after the first sep
SplitAfterN2(s, sep) ==
    IF Index(s, sep) = 0
    THEN <<s>>
    ELSE <<SubSeq(s, 1, Index(s, sep) + Len(sep) - 1), From(s, Index(s, sep) + Len(sep))>>

\* strings.Replace(s, old, new, 1)
Replace1(s, old, new) ==
    IF Index(s, old) = 0
    THEN s
    ELSE SubSeq(s, 1, Index(s, old) - 1) \o new \o From(s, Index(s, old) + Len(old))

\* mutant: the limit n is ignored, s is cut at every sep
RECURSIVE SplitN_NoLimit(_, _, _)
SplitN_NoLimit(s, sep, n) ==
    IF Index(s, <<sep>>) = 0
    THEN <<s>>
    ELSE <<SubSeq(s, 1, Index(s, <<sep>>) - 1)>>
         \o SplitN_NoLimit(From(s, Index(s, <<sep>>) + 1), sep, n)

\* strings.SplitN(s, sep, n) for a one-token separator and n >= 1
RECURSIVE SplitN(_, _, _)
SplitN(s, sep, n) ==
    IF n = 1 \/ Index(s, <<sep>>) = 0
    THEN <<s>>
    ELSE <<SubSeq(s, 1, Index(s, <<sep>>) - 1)>>
         \o SplitN(From(s, Index(s, <<sep>>) + 1), sep, n - 1)

\* arn.Parse
Parse(arn) ==
    IF ~HasPrefix(arn, arnPrefix)
    THEN [err |-> "arn: invalid prefix"]
    ELSE LET sections == SplitN(arn, arnDelimiter, arnSections)
         IN  IF Len(sections) # arnSections
             THEN [err |-> "arn: not enough sections"]
             ELSE [err |-> "", Partition |-> sections[2], Service |-> sections[3],
                   Region |-> sections[4], AccountID |-> sections[5],
                   Resource |-> sections[6]]

\* mutant: the region is left out
ARNString_NoRegion(arn) ==
    arnPrefix \o arn.Partition \o <<arnDelimiter>> \o arn.Service \o <<arnDelimiter>>
        \o <<arnDelimiter>> \o arn.AccountID \o <<arnDelimiter>> \o arn.Resource

\* ARN.String
ARNString(arn) ==
    arnPrefix \o arn.Partition \o <<arnDelimiter>> \o arn.Service \o <<arnDelimiter>>
        \o arn.Region \o <<arnDelimiter>> \o arn.AccountID \o <<arnDelimiter>> \o arn.Resource

\* filepath.Base: the last element of a path, trailing separators dropped
RECURSIVE TrimSlashes(_)
TrimSlashes(s) ==
    IF s # <<>> /\ s[Len(s)] = "/" THEN TrimSlashes(SubSeq(s, 1, Len(s) - 1)) ELSE s

Base(path) ==
    IF path = <<>> THEN <<".">>
    ELSE LET t == TrimSlashes(path)
             at == {i \in 1..Len(t) : t[i] = "/"}
         IN  IF t = <<>> THEN <<"/">>
             ELSE IF at = {} THEN t
             ELSE From(t, (CHOOSE i \in at : \A j \in at : j <= i) + 1)

\* the local file a fetched credential spec is written to
\* (kind is "s3_" or "ssm_")
localCredSpecFilePath(kind, base) ==
    CredentialSpecResourceDir \o <<"/", kind>> \o taskARN \o <<"_">> \o base \o <<".json">>

\* "credentialspec=file://" + path
dockerHostconfigSecOptCredSpec(path) ==
    CredentialSpecEquals \o FileScheme \o path

\* the value of a key: what follows "credentialspec:"
credSpecValue(credSpecStr) == SplitAfterN2(credSpecStr, CredentialSpecColon)[2]

\* GetTargetMapping: the published mapping, or the error
GetTargetMapping(credSpecInput) ==
    IF credSpecInput \in DOMAIN credSpecMap
    THEN [err |-> "", target |-> credSpecMap[credSpecInput]]
    ELSE [err |-> "unable to obtain credentialspec mapping"]

\* updateCredSpecMapping, under cs.lock
updateCredSpecMapping(credSpecInput, targetCredSpec) ==
    credSpecMap' = [k \in DOMAIN credSpecMap \cup {credSpecInput} |->
                        IF k = credSpecInput THEN targetCredSpec ELSE credSpecMap[k]]


(***************************************************************************)
(* Create, one call per driver, one action per step.  Calls that leave     *)
(* the process (credentials manager, S3, SSM, file system) succeed or      *)
(* fail, either way.                                                       *)
(***************************************************************************)
NoFile == [content |-> "none", hist |-> <<>>]

\* err.Error() of a failed S3, SSM or file-system call
ExternalErrors == {"access denied", "timeout"}

FileAt(path) == IF path \in DOMAIN files THEN files[path] ELSE NoFile

\* the file system with file f at path
PutFile(path, f) ==
    [q \in DOMAIN files \cup {path} |-> IF q = path THEN f ELSE files[q]]

s3Path(credSpecStr) ==
    localCredSpecFilePath("s3_", Base(Parse(credSpecValue(credSpecStr)).Resource))

ssmPath(credSpecStr) ==
    localCredSpecFilePath("ssm_", Base(Parse(credSpecValue(credSpecStr)).Resource))

\* what every step of Create leaves alone
CreateFrame ==
    UNCHANGED <<statusVars, taskARN, executionCredentialsID, createdAt,
                requiredCredentialSpecs, histVars, eniVars, ckptVars, cgVars, platVars, arnVars, lockVars, monVars, cfgVars>>

Goto(d, label) == pc' = [pc EXCEPT ![d] = label]

\* mutant: the error is noted and the loop goes on with the next key
Fail_Continue(d, e) ==
    /\ pc' = [pc EXCEPT ![d] = "loop"]
    /\ err' = [err EXCEPT ![d] = e]

\* the call stops with error e: setTerminalReason(e) comes next
Fail(d, e) ==
    /\ pc' = [pc EXCEPT ![d] = "fail"]
    /\ err' = [err EXCEPT ![d] = e]

\* the call returns r: its locals are gone
Return(d, r) ==
    /\ pc' = [pc EXCEPT ![d] = "idle"]
    /\ ret' = [ret EXCEPT ![d] = r]
    /\ todo' = [todo EXCEPT ![d] = {}]
    /\ cur' = [cur EXCEPT ![d] = <<>>]
    /\ err' = [err EXCEPT ![d] = ""]

\* the temp file of a failed writeS3File is closed and stays in the directory
AbandonTemp(d) ==
    /\ tempFile' = [tempFile EXCEPT ![d] = NoFile]
    /\ leakedTemps' = TRUE

\* Create: GetTaskCredentials(executionCredentialsID), then the range loop
CreateBegin(d) ==
    /\ pc[d] = "idle"
    /\ \E ok \in BOOLEAN :
         IF ok
         THEN /\ Goto(d, "loop")
              /\ todo' = [todo EXCEPT ![d] = requiredCredentialSpecs]
              /\ UNCHANGED err
         ELSE /\ Fail(d, "credentialspec resource: unable to find execution role credentials")
              /\ UNCHANGED todo
    /\ ret' = [ret EXCEPT ![d] = "none"]
    /\ UNCHANGED <<cur, tempFile, credSpecMap, onceVars, fsVars>>
    /\ CreateFrame

\* the range loop is over: return nil
CreateDone(d) ==
    /\ pc[d] = "loop"
    /\ todo[d] = {}
    /\ Return(d, "nil")
    /\ UNCHANGED <<tempFile, credSpecMap, onceVars, fsVars>>
    /\ CreateFrame

\* the loop takes the next key (a Go map is ranged over in any order)
TakeKey(d, credSpecStr) ==
    /\ pc[d] = "loop"
    /\ credSpecStr \in todo[d]
    /\ todo' = [todo EXCEPT ![d] = @ \ {credSpecStr}]
    /\ cur' = [cur EXCEPT ![d] = credSpecStr]

\* a file:// value: publish and return nil
CreateFile(d, credSpecStr) ==
    /\ pc[d] = "loop"
    /\ credSpecStr \in todo[d]
    /\ HasPrefix(credSpecValue(credSpecStr), FileScheme)
    /\ updateCredSpecMapping(credSpecStr,
                             Replace1(credSpecStr, CredentialSpecColon, CredentialSpecEquals))
    /\ Return(d, "nil")
    /\ UNCHANGED <<tempFile, onceVars, fsVars>>
    /\ CreateFrame

\* arn.Parse(credSpecValue) fails
CreateParseError(d, credSpecStr) ==
    /\ TakeKey(d, credSpecStr)
    /\ ~HasPrefix(credSpecValue(credSpecStr), FileScheme)
    /\ Parse(credSpecValue(credSpecStr)).err # ""
    /\ Fail(d, Parse(credSpecValue(credSpecStr)).err)
    /\ UNCHANGED <<tempFile, ret, credSpecMap, onceVars, fsVars>>
    /\ CreateFrame

IsARNOf(credSpecStr, services) ==
    /\ ~HasPrefix(credSpecValue(credSpecStr), FileScheme)
    /\ Parse(credSpecValue(credSpecStr)).err = ""
    /\ Parse(credSpecValue(credSpecStr)).Service \in services

\* an ARN of a service other than s3 and ssm
CreateUnsupported(d, credSpecStr) ==
    /\ TakeKey(d, credSpecStr)
    /\ ~HasPrefix(credSpecValue(credSpecStr), FileScheme)
    /\ Parse(credSpecValue(credSpecStr)).err = ""
    /\ Parse(credSpecValue(credSpecStr)).Service \notin {<<"s3">>, <<"ssm">>}
    /\ Fail(d, "unsupported credentialspec ARN dependency, only s3/ssm ARNs are valid")
    /\ UNCHANGED <<tempFile, ret, credSpecMap, onceVars, fsVars>>
    /\ CreateFrame

\* an s3 ARN: s3.ParseS3ARN, then NewS3ClientForBucket
CreateS3(d, credSpecStr) ==
    /\ TakeKey(d, credSpecStr)
    /\ IsARNOf(credSpecStr, {<<"s3">>})
    /\ \/ Goto(d, "s3temp") /\ UNCHANGED err
       \/ \E e \in ExternalErrors : Fail(d, e)
    /\ UNCHANGED <<tempFile, ret, credSpecMap, onceVars, fsVars>>
    /\ CreateFrame

\* writeS3File up to the rename: ioutil.TempFile, writeFunc(temp) (the
\* download), temp.Chmod and temp.Sync.  These touch the call's own temp
\* file only, so they are one step; the first that fails ends the call.
S3WriteTemp(d) ==
    /\ pc[d] = "s3temp"
    /\ \E failsAt \in {"TempFile", "writeFunc", "Chmod", "Sync", "none"} :
         CASE failsAt = "none" ->
                /\ Goto(d, "s3rename")
                /\ tempFile' = [tempFile EXCEPT ![d] =
                       [content |-> "complete",
                        hist |-> <<"create", "write", "chmod", "sync">>]]
                /\ UNCHANGED <<err, leakedTemps>>
           [] failsAt = "TempFile" ->
                /\ \E e \in ExternalErrors : Fail(d, e)
                /\ UNCHANGED <<tempFile, leakedTemps>>
           [] OTHER ->
                /\ \E e \in ExternalErrors : Fail(d, e)
                /\ AbandonTemp(d)
    /\ UNCHANGED <<todo, cur, ret, credSpecMap, onceVars, files>>
    /\ CreateFrame

\* writeS3File: os.Rename(temp.Name(), filePath)
S3Rename(d) ==
    /\ pc[d] = "s3rename"
    /\ \E ok \in BOOLEAN :
         IF ok
         THEN /\ Goto(d, "s3publish")
              /\ files' = PutFile(s3Path(cur[d]),
                                  [content |-> tempFile[d].content,
                                   hist |-> tempFile[d].hist \o <<"rename">>])
              /\ tempFile' = [tempFile EXCEPT ![d] = NoFile]
              /\ UNCHANGED <<err, leakedTemps>>
         ELSE /\ \E e \in ExternalErrors : Fail(d, e)
              /\ AbandonTemp(d)
              /\ UNCHANGED files
    /\ UNCHANGED <<todo, cur, ret, credSpecMap, onceVars>>
    /\ CreateFrame

\* the s3 branch publishes its mapping and the loop goes on
S3Publish(d) ==
    /\ pc[d] = "s3publish"
    /\ updateCredSpecMapping(credSpecValue(cur[d]),
                             dockerHostconfigSecOptCredSpec(s3Path(cur[d])))
    /\ Goto(d, "loop")
    /\ UNCHANGED <<todo, cur, tempFile, err, ret, onceVars, fsVars>>
    /\ CreateFrame

\* an ssm ARN: NewSSMClient, then ssm.GetParametersFromSSM
CreateSSM(d, credSpecStr) ==
    /\ TakeKey(d, credSpecStr)
    /\ IsARNOf(credSpecStr, {<<"ssm">>})
    /\ \E ok \in BOOLEAN :
         IF ok
         THEN Goto(d, "ssmopen") /\ UNCHANGED err
         ELSE \E e \in ExternalErrors : Fail(d, e)
    /\ UNCHANGED <<tempFile, ret, credSpecMap, onceVars, fsVars>>
    /\ CreateFrame

\* writeSSMFile: ioutil.WriteFile opens filePath itself, created or truncated
SSMOpen(d) ==
    /\ pc[d] = "ssmopen"
    /\ \E ok \in BOOLEAN :
         IF ok
         THEN /\ Goto(d, "ssmwrite")
              /\ files' = PutFile(ssmPath(cur[d]), [content |-> "empty", hist |-> <<"open">>])
              /\ UNCHANGED err
         ELSE /\ \E e \in ExternalErrors : Fail(d, e)
              /\ UNCHANGED files
    /\ UNCHANGED <<todo, cur, tempFile, ret, credSpecMap, onceVars, leakedTemps>>
    /\ CreateFrame

\* writeSSMFile: ioutil.WriteFile writes the parameter and closes
SSMWrite(d) ==
    /\ pc[d] = "ssmwrite"
    /\ \E ok \in BOOLEAN :
         IF ok
         THEN /\ Goto(d, "ssmpublish")
              /\ files' = PutFile(ssmPath(cur[d]),
                                  [content |-> "complete",
                                   hist |-> FileAt(ssmPath(cur[d])).hist \o <<"write">>])
              /\ UNCHANGED err
         ELSE /\ \E e \in ExternalErrors : Fail(d, e)
              /\ files' = PutFile(ssmPath(cur[d]),
                                  [content |-> "partial",
                                   hist |-> FileAt(ssmPath(cur[d])).hist \o <<"write">>])
    /\ UNCHANGED <<todo, cur, tempFile, ret, credSpecMap, onceVars, leakedTemps>>
    /\ CreateFrame

\* the ssm branch publishes its mapping and the loop goes on
SSMPublish(d) ==
    /\ pc[d] = "ssmpublish"
    /\ updateCredSpecMapping(credSpecValue(cur[d]),
                             dockerHostconfigSecOptCredSpec(ssmPath(cur[d])))
    /\ Goto(d, "loop")
    /\ UNCHANGED <<todo, cur, tempFile, err, ret, onceVars, fsVars>>
    /\ CreateFrame

(***************************************************************************)
(* setTerminalReason(err.Error()) and the return of the error.             *)
(* terminalReasonOnce.Do: the fast check of done, then under the Once's    *)
(* mutex the second check, the function and the store of done.             *)
(***************************************************************************)
GetTerminalReason == terminalReason

\* mutant: no second check of done under the mutex
OnceRuns_Unchecked == TRUE

\* whether Once.Do, under its mutex, runs the function
OnceRuns == ~onceDone

\* Once.Do finds done set: setTerminalReason returns, Create returns the error
SetTerminalReasonDone(d) ==
    /\ pc[d] = "fail"
    /\ onceDone
    /\ Return(d, "err")
    /\ UNCHANGED <<tempFile, credSpecMap, onceVars, fsVars>>
    /\ CreateFrame

\* Once.Do finds done clear on its fast path and goes for the mutex
SetTerminalReasonSlow(d) ==
    /\ pc[d] = "fail"
    /\ ~onceDone
    /\ Goto(d, "lock")
    /\ UNCHANGED <<todo, cur, tempFile, err, ret, credSpecMap, onceVars, fsVars>>
    /\ CreateFrame

\* Once.Do gets the mutex
SetTerminalReasonLock(d) ==
    /\ pc[d] = "lock"
    /\ onceOwner = 0
    /\ onceOwner' = d
    /\ Goto(d, "once")
    /\ UNCHANGED <<todo, cur, tempFile, err, ret, credSpecMap, terminalReason, onceDone, fsVars>>
    /\ CreateFrame

\* under the mutex: cs.terminalReason = reason if done is still clear
SetTerminalReasonRun(d) ==
    /\ pc[d] = "once"
    /\ IF OnceRuns
       THEN terminalReason' = err[d] /\ onceDone' = TRUE
       ELSE UNCHANGED <<terminalReason, onceDone>>
    /\ onceOwner' = 0
    /\ Return(d, "err")
    /\ UNCHANGED <<tempFile, credSpecMap, fsVars>>
    /\ CreateFrame

\* the steps of a Create call that only publishes file:// keys or fails
\* before any fetch
CreateStepNoFetch(d) ==
    \/ CreateBegin(d)
    \/ CreateDone(d)
    \/ \E k \in todo[d] : CreateFile(d, k)
    \/ \E k \in todo[d] : CreateParseError(d, k)
    \/ \E k \in todo[d] : CreateUnsupported(d, k)
    \/ SetTerminalReasonDone(d)
    \/ SetTerminalReasonSlow(d)
    \/ SetTerminalReasonLock(d)
    \/ SetTerminalReasonRun(d)

\* the steps of the s3 and ssm branches
CreateStepFetch(d) ==
    \/ \E k \in todo[d] : CreateS3(d, k)
    \/ \E k \in todo[d] : CreateSSM(d, k)
    \/ S3WriteTemp(d)
    \/ S3Rename(d)
    \/ S3Publish(d)
    \/ SSMOpen(d)
    \/ SSMWrite(d)
    \/ SSMPublish(d)

CreateStep(d) == CreateStepNoFetch(d) \/ CreateStepFetch(d)

(***************************************************************************)
(* ApplyTransition: the operation bound to the target status in            *)
(* resourceStatusToTransitionFunction is called and its result returned.   *)
(* The record of a call counts the operations it has invoked.              *)
(***************************************************************************)
\* initStatusToTransition: the table of a resource that New or Initialize set up
resourceStatusToTransitionFunction == [s \in {CredentialSpecCreated} |-> "Create"]

NoTransition == [stage |-> "none", target |-> CredentialSpecStatusNone, invoked |-> 0, ret |-> "none"]

\* mutant: a target without a binding runs Create all the same
ApplyTransition_AnyTarget(d, nextState) ==
    /\ pc[d] = "idle"
    /\ transition[d].stage # "in"
    /\ CreateBegin(d)
    /\ transition' = [transition EXCEPT ![d] =
           [stage |-> "in", target |-> nextState, invoked |-> 1, ret |-> "none"]]

\* ApplyTransition(nextState): the lookup, then either the error or the call
\* of the bound function
ApplyTransition(d, nextState) ==
    /\ pc[d] = "idle"
    /\ transition[d].stage # "in"
    /\ IF nextState \in DOMAIN resourceStatusToTransitionFunction
       THEN /\ CreateBegin(d)
            /\ transition' = [transition EXCEPT ![d] =
                   [stage |-> "in", target |-> nextState, invoked |-> 1, ret |-> "none"]]
       ELSE /\ transition' = [transition EXCEPT ![d] =
                   [stage |-> "done", target |-> nextState, invoked |-> 0, ret |-> "err"]]
            /\ UNCHANGED <<createVars, credSpecMap, onceVars, fsVars>>
            /\ CreateFrame

\* the bound function runs on; ApplyTransition returns what it returns
TransitionStep(d) ==
    /\ transition[d].stage = "in"
    /\ pc[d] # "idle"
    /\ CreateStep(d)
    /\ transition' = IF pc'[d] = "idle"
                     THEN [transition EXCEPT ![d].stage = "done", ![d].ret = ret'[d]]
                     ELSE transition

(***************************************************************************)
(* ENI state manager (agent/eni/manager.go).  A device name and a path are *)
(* sequences of characters and "/" separators; a MAC address string is the *)
(* sequence of its colon-separated groups, each a sequence of characters.  *)
(* Every section of the code that holds updateLock for writing is one      *)
(* step: no other section that takes the lock can run inside it.           *)
(***************************************************************************)
ethPrefix == <<"e", "t", "h">>
invalidDeviceMsg == "Invalid Device Name"
invalidMACMsg == "Invalid MAC Address"
sysfsNetDir == <<"/", "sys", "/", "class", "/", "net">>

NumReconcilers == 2
Reconcilers == 1..NumReconcilers
MaxEvents == 1

HexDigits ==
    {"0", "1", "2", "3", "4", "5", "6", "7", "8", "9",
     "a", "b", "c", "d", "e", "f", "A", "B", "C", "D", "E", "F"}

\* the value v stored under key k
MapSet(map, k, v) ==
    [x \in DOMAIN map \cup {k} |-> IF x = k THEN v ELSE map[x]]

\* the key k deleted
MapDelete(map, k) == [x \in DOMAIN map \ {k} |-> map[x]]

\* mutant: any device name passes
isValidDevice_AnyName(deviceName, prefix) == TRUE

isValidDevice(deviceName, prefix) == HasPrefix(deviceName, prefix)

\* net.ParseMAC on the colon form: 6, 8 or 20 groups of two hex digits
isValidMACAddress(mac) ==
    /\ Len(mac) \in {6, 8, 20}
    /\ \A i \in 1..Len(mac) :
          /\ Len(mac[i]) = 2
          /\ \A j \in 1..Len(mac[i]) : mac[i][j] \in HexDigits

\* mutant: the MAC address is not validated
addDeviceWithMACAddress_AnyMAC(map, deviceName, MACAddress) ==
    IF ~isValidDevice(deviceName, ethPrefix)
    THEN [err |-> invalidDeviceMsg, enis |-> map]
    ELSE [err |-> "", enis |-> MapSet(map, MACAddress, deviceName)]

\* the map after the call, and the error returned
addDeviceWithMACAddress(map, deviceName, MACAddress) ==
    IF ~isValidDevice(deviceName, ethPrefix)
    THEN [err |-> invalidDeviceMsg, enis |-> map]
    ELSE IF ~isValidMACAddress(MACAddress)
    THEN [err |-> invalidMACMsg, enis |-> map]
    ELSE [err |-> "", enis |-> MapSet(map, MACAddress, deviceName)]

\* netlinkClient.LinkByName(filepath.Base(dev)) and the address it reports
getMACAddress(dev) ==
    IF Base(dev) \in DOMAIN links
    THEN [err |-> "", mac |-> links[Base(dev)]]
    ELSE [err |-> "Link not found", mac |-> <<>>]

\* the prefix is looked for in deviceName as given, not in its base name
addDevice(map, deviceName) ==
    LET device == Base(deviceName)
    IN  IF ~isValidDevice(deviceName, ethPrefix)
        THEN [err |-> invalidDeviceMsg, enis |-> map]
        ELSE IF getMACAddress(device).err # ""
        THEN [err |-> getMACAddress(device).err, enis |-> map]
        ELSE addDeviceWithMACAddress(map, device, getMACAddress(device).mac)

removeDeviceWithMACAddress(map, mac) ==
    IF ~isValidMACAddress(mac)
    THEN [err |-> invalidMACMsg, enis |-> map]
    ELSE [err |-> "", enis |-> MapDelete(map, mac)]

\* removeDeviceWithMACAddress for each key of macs, in any order
RECURSIVE RemoveEach(_, _)
RemoveEach(map, macs) ==
    IF macs = {} THEN map
    ELSE LET mac == CHOOSE m \in macs : TRUE
         IN  RemoveEach(removeDeviceWithMACAddress(map, mac).enis, macs \ {mac})

\* removeDevice that stops at the first record of the device
removeDevice_FirstMatch(map, deviceName) ==
    IF ~isValidDevice(deviceName, ethPrefix)
    THEN [err |-> invalidDeviceMsg, enis |-> map]
    ELSE LET macs == {mac \in DOMAIN map : map[mac] = deviceName}
         IN  [err |-> "",
              enis |-> IF macs = {} THEN map
                       ELSE RemoveEach(map, {CHOOSE mac \in macs : TRUE})]

removeDevice(map, deviceName) ==
    IF ~isValidDevice(deviceName, ethPrefix)
    THEN [err |-> invalidDeviceMsg, enis |-> map]
    ELSE [err |-> "",
          enis |-> RemoveEach(map, {mac \in DOMAIN map : map[mac] = deviceName})]

deviceExists(mac) == mac \in DOMAIN enis

\* the links whose name has the prefix, keyed by HardwareAddr.String()
buildState(linkList) ==
    LET eth == {n \in DOMAIN linkList : HasPrefix(n, ethPrefix)}
    IN  [m \in {linkList[n] : n \in eth} |->
            CHOOSE n \in eth : linkList[n] = m]

\* addDeviceWithMACAddress for each entry of state, errors only logged
RECURSIVE AddEach(_, _, _)
AddEach(map, state, macs) ==
    IF macs = {} THEN map
    ELSE LET mac == CHOOSE m \in macs : TRUE
         IN  AddEach(addDeviceWithMACAddress(map, state[mac], mac).enis,
                     state, macs \ {mac})

\* the name fsnotify reports for an entry of the watched directory
SysfsPath(name) == sysfsNetDir \o <<"/">> \o name

\* the event queued for the handler; an event that finds the queue full is
\* lost, as it is when the inotify queue overflows
Notify(op, name) ==
    IF watcher = "open" /\ handler # "none" /\ Len(events) < MaxEvents
    THEN Append(events, [Op |-> op, Name |-> SysfsPath(name)])
    ELSE events

\* every pass under way has had company
Disturb(r) == [x \in Reconcilers |-> IF x = r THEN alone[x] ELSE FALSE]

\* InitStateManager: enumerate, record the eth links, set the watcher up
InitStateManager ==
    /\ mgr = "new"
    /\ \E listFails, watcherFails \in BOOLEAN :
         IF listFails
         THEN mgr' = "failed" /\ UNCHANGED <<enis, watcher, handler>>
         ELSE /\ enis' = AddEach(enis, buildState(links), DOMAIN buildState(links))
              /\ IF watcherFails
                 THEN /\ mgr' = "failed"
                      /\ watcher' \in {"nil", "open"}    \* NewWatcher failed, or Add did
                      /\ UNCHANGED handler
                 ELSE /\ mgr' = "watching"
                      /\ watcher' = "open"
                      /\ handler' = "running"
    /\ UNCHANGED <<links, events, rpc, linkErr, currentState, rtodo, rcur, alone, ctxDone, notENI>>

\* BeginENIUpdate: the ticker is started
BeginENIUpdate ==
    /\ mgr = "watching"
    /\ mgr' = "updating"
    /\ UNCHANGED <<enis, links, events, rpc, linkErr, currentState, rtodo, rcur, alone, lifeVars, notENI>>

\* the context is cancelled and the loop takes ctx.Done() at once: the
\* ticker is stopped and the loop returns
CancelENIUpdate ==
    /\ mgr = "updating"
    /\ ~ctxDone
    /\ ctxDone' = TRUE
    /\ mgr' = "stopped"
    /\ UNCHANGED <<enis, links, events, rpc, linkErr, currentState, rtodo, rcur, alone, watcher, handler, notENI>>

\* the owner of the context cancels it
CtxCancel ==
    /\ ~ctxDone
    /\ ctxDone' = TRUE
    /\ UNCHANGED <<enis, links, events, mgr, rpc, linkErr, currentState, rtodo, rcur, alone, watcher, handler, notENI>>

\* mutant: the loop ignores ctx.Done()
LoopReturn_Ignored ==
    /\ mgr = "updating"
    /\ ctxDone
    /\ UNCHANGED vars

\* the select takes ctx.Done(): the ticker is stopped and the loop returns
LoopReturn ==
    /\ mgr = "updating"
    /\ ctxDone
    /\ mgr' = "stopped"
    /\ UNCHANGED <<enis, links, events, rpc, linkErr, currentState, rtodo, rcur, alone, lifeVars, notENI>>

\* watcher.Close(), which closes watcher.Events; no code of the manager calls it
CloseWatcher ==
    /\ watcher = "open"
    /\ watcher' = "closed"
    /\ UNCHANGED <<enis, links, events, mgr, rpc, linkErr, currentState, rtodo, rcur, alone, ctxDone, handler, notENI>>

\* a tick starts goroutine r: LinkList, then buildState
ReconcileBegin(r) ==
    /\ mgr = "updating"
    /\ rpc[r] = "idle"
    /\ \E failed \in BOOLEAN :
         /\ linkErr' = [linkErr EXCEPT ![r] = failed]
         /\ currentState' = [currentState EXCEPT
                               ![r] = IF failed THEN EmptyMap ELSE buildState(links)]
    /\ rpc' = [rpc EXCEPT ![r] = "remove"]
    /\ alone' = [alone EXCEPT ![r] = TRUE]
    /\ UNCHANGED <<enis, links, events, mgr, rtodo, rcur, lifeVars, notENI>>

\* the remove loop, under updateLock
ReconcileRemove(r) ==
    /\ rpc[r] = "remove"
    /\ enis' = RemoveEach(enis, {mac \in DOMAIN enis : mac \notin DOMAIN currentState[r]})
    /\ rpc' = [rpc EXCEPT ![r] = "add"]
    /\ rtodo' = [rtodo EXCEPT ![r] = DOMAIN currentState[r]]
    /\ alone' = Disturb(r)
    /\ UNCHANGED <<links, events, mgr, linkErr, currentState, rcur, lifeVars, notENI>>

\* the add loop visits mac: deviceExists(mac), under the read lock
ReconcileCheck(r, mac) ==
    /\ rpc[r] = "add"
    /\ mac \in rtodo[r]
    /\ IF deviceExists(mac)
       THEN /\ rtodo' = [rtodo EXCEPT ![r] = @ \ {mac}]
            /\ UNCHANGED <<rpc, rcur>>
       ELSE /\ rpc' = [rpc EXCEPT ![r] = "adding"]
            /\ rcur' = [rcur EXCEPT ![r] = mac]
            /\ UNCHANGED rtodo
    /\ UNCHANGED <<enis, links, events, mgr, linkErr, currentState, alone, lifeVars, notENI>>

\* the add loop adds the key it found missing, under updateLock
ReconcileAdd(r) ==
    /\ rpc[r] = "adding"
    /\ enis' = addDeviceWithMACAddress(enis, currentState[r][rcur[r]], rcur[r]).enis
    /\ rpc' = [rpc EXCEPT ![r] = "add"]
    /\ rtodo' = [rtodo EXCEPT ![r] = @ \ {rcur[r]}]
    /\ rcur' = [rcur EXCEPT ![r] = <<>>]
    /\ alone' = Disturb(r)
    /\ UNCHANGED <<links, events, mgr, linkErr, currentState, lifeVars, notENI>>

\* the add loop is over: reconcileENIs returns and its locals are gone
ReconcileDone(r) ==
    /\ rpc[r] = "add"
    /\ rtodo[r] = {}
    /\ rpc' = [rpc EXCEPT ![r] = "idle"]
    /\ linkErr' = [linkErr EXCEPT ![r] = FALSE]
    /\ currentState' = [currentState EXCEPT ![r] = EmptyMap]
    /\ alone' = [alone EXCEPT ![r] = FALSE]
    /\ UNCHANGED <<enis, links, events, mgr, rtodo, rcur, lifeVars, notENI>>

\* fsnotifyHandler takes an event: addDevice or removeDevice under updateLock
HandleEvent ==
    /\ events # <<>>
    /\ handler = "running"
    /\ LET evt == Head(events)
       IN  enis' = IF evt.Op = "Create" THEN addDevice(enis, evt.Name).enis
                   ELSE removeDevice(enis, evt.Name).enis
    /\ events' = Tail(events)
    /\ alone' = [x \in Reconcilers |-> FALSE]
    /\ UNCHANGED <<links, mgr, rpc, linkErr, currentState, rtodo, rcur, lifeVars, notENI>>

\* fsnotifyHandler receives from the closed, drained channels.  The receive
\* from Events yields a zero-valued event, which matches neither operation,
\* and the loop goes round; the receive from Errors yields a nil error, and
\* erx.Error() panics.
HandleClosed ==
    /\ watcher = "closed"
    /\ events = <<>>
    /\ handler \in {"running", "spinning"}
    /\ handler' \in {"spinning", "panicked"}
    /\ UNCHANGED <<enis, links, events, mgr, rpc, linkErr, currentState, rtodo, rcur, alone, ctxDone, watcher, notENI>>

\* the kernel gains a link
LinkAdd(name, mac) ==
    /\ name \notin DOMAIN links
    /\ \A n \in DOMAIN links : links[n] # mac
    /\ links' = MapSet(links, name, mac)
    /\ events' = Notify("Create", name)
    /\ UNCHANGED <<enis, mgr, rpc, linkErr, currentState, rtodo, rcur, alone, lifeVars, notENI>>

\* the kernel loses a link
LinkDel(name) ==
    /\ name \in DOMAIN links
    /\ links' = MapDelete(links, name)
    /\ events' = Notify("Remove", name)
    /\ UNCHANGED <<enis, mgr, rpc, linkErr, currentState, rtodo, rcur, alone, lifeVars, notENI>>

(***************************************************************************)
(* Goroutines that call addDeviceWithMACAddress and                        *)
(* removeDeviceWithMACAddress themselves, each call between                *)
(* updateLock.Lock() and updateLock.Unlock() (manager_test.go, the         *)
(* concurrent add and remove tests).  A map assignment or delete reads the *)
(* map's table and then writes it: two steps, so that the lock is what     *)
(* keeps one caller's write from being undone by another's.                *)
(***************************************************************************)
NumWorkers == 3
Workers == 1..NumWorkers

HexDigitSeq ==
    <<"0", "1", "2", "3", "4", "5", "6", "7", "8", "9", "a", "b", "c", "d", "e", "f">>

\* worker w's own device and address
WorkerDevice(w) == ethPrefix \o <<HexDigitSeq[w + 1]>>
WorkerMAC(w) ==
    << <<"0", "a">>, <<"1", "b">>, <<"3", "c">>, <<"4", "d">>, <<"5", "e">>,
       <<"0", HexDigitSeq[w + 1]>> >>

apiFrame ==
    UNCHANGED <<links, events, mgr, rpc, linkErr, currentState, rtodo, rcur, alone,
                lifeVars, statusVars, resVars, onceVars, fsVars, createVars, histVars,
                ckptVars, cgVars, platVars, arnVars, lockVars, transVars, monVars, cfgVars>>

workerFrame == apiFrame /\ UNCHANGED <<readerVars, eniCall>>

\* mutant: the caller does not wait for the lock
WLock_NoExclusion(w) ==
    /\ wpc[w] \in {"start", "added"}
    /\ updateLock' = w
    /\ wpc' = [wpc EXCEPT ![w] = IF wpc[w] = "start" THEN "addLoad" ELSE "removeLoad"]
    /\ UNCHANGED <<enis, wlocal>>
    /\ workerFrame

\* updateLock.Lock(), before the add, or before the remove that follows it
WLock(w) ==
    /\ wpc[w] \in {"start", "added"}
    /\ updateLock = 0
    /\ updateLock' = w
    /\ wpc' = [wpc EXCEPT ![w] = IF wpc[w] = "start" THEN "addLoad" ELSE "removeLoad"]
    /\ UNCHANGED <<enis, wlocal>>
    /\ workerFrame

\* the map operation reads the map
WLoad(w) ==
    /\ wpc[w] \in {"addLoad", "removeLoad"}
    /\ wlocal' = [wlocal EXCEPT ![w] = enis]
    /\ wpc' = [wpc EXCEPT ![w] = IF wpc[w] = "addLoad" THEN "addStore" ELSE "removeStore"]
    /\ UNCHANGED <<enis, updateLock>>
    /\ workerFrame

\* the map operation writes the map: enis[MACAddress] = deviceName, or delete
WStore(w) ==
    /\ wpc[w] \in {"addStore", "removeStore"}
    /\ enis' = IF wpc[w] = "addStore"
               THEN addDeviceWithMACAddress(wlocal[w], WorkerDevice(w), WorkerMAC(w)).enis
               ELSE removeDeviceWithMACAddress(wlocal[w], WorkerMAC(w)).enis
    /\ wpc' = [wpc EXCEPT ![w] = IF wpc[w] = "addStore" THEN "addUnlock" ELSE "removeUnlock"]
    /\ wlocal' = [wlocal EXCEPT ![w] = EmptyMap]
    /\ UNCHANGED updateLock
    /\ workerFrame

\* updateLock.Unlock()
WUnlock(w) ==
    /\ wpc[w] \in {"addUnlock", "removeUnlock"}
    /\ updateLock' = 0
    /\ wpc' = [wpc EXCEPT ![w] = IF wpc[w] = "addUnlock" THEN "added" ELSE "removed"]
    /\ UNCHANGED <<enis, wlocal>>
    /\ workerFrame

\* nothing read yet
NotSeen == [map |-> EmptyMap, writing |-> FALSE]

\* GetAllENIs: returns eniStateManager.enis itself, taking no lock
GetAllENIs ==
    /\ rdpc = "idle"
    /\ rdpc' = "holding"
    /\ snap' = enis
    /\ seen' = [map |-> enis, writing |-> updateLock # 0]
    /\ UNCHANGED <<enis, workerVars, eniCall>>
    /\ apiFrame

\* the caller reads the map it was given: it is the manager's own map, and
\* a writer may be inside a map operation at that moment
ReadReturnedMap ==
    /\ rdpc = "holding"
    /\ seen' = [map |-> enis, writing |-> updateLock # 0]
    /\ UNCHANGED <<enis, rdpc, snap, workerVars, eniCall>>
    /\ apiFrame

\* the caller lets go of the map
DropReturnedMap ==
    /\ rdpc = "holding"
    /\ rdpc' = "idle"
    /\ snap' = EmptyMap
    /\ seen' = NotSeen
    /\ UNCHANGED <<enis, workerVars, eniCall>>
    /\ apiFrame

(***************************************************************************)
(* Direct calls of the manager's helper methods, each made with updateLock *)
(* held, as their callers in manager.go and manager_test.go make them.     *)
(***************************************************************************)
\* the record of a call: its arguments, the error returned, the map before
CallMade(op, dev, mac, e) ==
    [op |-> op, dev |-> dev, mac |-> mac, err |-> e, before |-> enis,
     flip |-> ~eniCall.flip]

NoCall ==
    [op |-> "none", dev |-> <<>>, mac |-> <<>>, err |-> "", before |-> EmptyMap,
     flip |-> FALSE]

callFrame ==
    UNCHANGED <<events, mgr, rpc, linkErr, currentState, rtodo, rcur, alone, lifeVars,
                workerVars, readerVars,
                statusVars, resVars, onceVars, fsVars, createVars, histVars, ckptVars, cgVars, platVars, arnVars, lockVars, transVars, monVars, cfgVars>>

CallAddDeviceWithMACAddress(deviceName, MACAddress) ==
    /\ enis' = addDeviceWithMACAddress(enis, deviceName, MACAddress).enis
    /\ eniCall' = CallMade("addDeviceWithMACAddress", deviceName, MACAddress,
                           addDeviceWithMACAddress(enis, deviceName, MACAddress).err)
    /\ UNCHANGED links
    /\ callFrame

CallRemoveDeviceWithMACAddress(mac) ==
    /\ enis' = removeDeviceWithMACAddress(enis, mac).enis
    /\ eniCall' = CallMade("removeDeviceWithMACAddress", <<>>, mac,
                           removeDeviceWithMACAddress(enis, mac).err)
    /\ UNCHANGED links
    /\ callFrame

CallAddDevice(deviceName) ==
    /\ enis' = addDevice(enis, deviceName).enis
    /\ eniCall' = CallMade("addDevice", deviceName, <<>>, addDevice(enis, deviceName).err)
    /\ UNCHANGED links
    /\ callFrame

CallRemoveDevice(deviceName) ==
    /\ enis' = removeDevice(enis, deviceName).enis
    /\ eniCall' = CallMade("removeDevice", deviceName, <<>>, removeDevice(enis, deviceName).err)
    /\ UNCHANGED links
    /\ callFrame

\* the kernel's links change between calls
KernelSet(name, mac) ==
    /\ \A n \in DOMAIN links : n # name => links[n] # mac
    /\ links' = MapSet(links, name, mac)
    /\ UNCHANGED <<enis, eniCall>>
    /\ callFrame

(***************************************************************************)
(* The manager's own goroutines, lock by lock: InitStateManager on its     *)
(* caller's goroutine, fsnotifyHandler, and the reconcileENIs goroutines.  *)
(* Each takes updateLock, performs its map operations (a read of the map's *)
(* table, then a write), and releases the lock; deviceExists holds the     *)
(* lock for reading.                                                       *)
(***************************************************************************)
\* the reconcileENIs goroutines are 1..NumReconcilers
HandlerG == NumReconcilers + 1
InitG == NumReconcilers + 2
Goroutines == 1..(NumReconcilers + 2)

lockFrame ==
    UNCHANGED <<wpc, wlocal, readerVars, eniCall, alone, ctxDone,
                statusVars, resVars, onceVars, fsVars, createVars, histVars,
                ckptVars, cgVars, platVars, arnVars, transVars, monVars, cfgVars>>

\* InitStateManager has not called LinkList, or has returned
NoListing == [err |-> FALSE, links |-> EmptyMap]

\* mutant: the error of LinkList is logged and the call goes on, as
\* reconcileENIs does
InitList_LogOnly ==
    /\ mgr = "new"
    /\ \E listFails \in BOOLEAN :
         /\ mgr' = "init"
         /\ listed' = [err |-> listFails, links |-> IF listFails THEN EmptyMap ELSE links]
    /\ UNCHANGED <<enis, links, events, rpc, linkErr, currentState, rtodo, rcur,
                   watcher, handler, updateLock, gpc, gmap, rlocks>>
    /\ lockFrame

\* InitStateManager: LinkList; an error is returned at once
InitList ==
    /\ mgr = "new"
    /\ \E listFails \in BOOLEAN :
         IF listFails
         THEN mgr' = "failed" /\ listed' = [err |-> TRUE, links |-> EmptyMap]
         ELSE mgr' = "init" /\ listed' = [err |-> FALSE, links |-> links]
    /\ UNCHANGED <<enis, links, events, rpc, linkErr, currentState, rtodo, rcur,
                   watcher, handler, updateLock, gpc, gmap, rlocks>>
    /\ lockFrame

\* goroutine g has reached an updateLock.Lock() of the manager
AtLock(g) ==
    /\ gpc[g] = "out"
    /\ CASE g = InitG -> mgr = "init"
         [] g = HandlerG -> handler = "running" /\ events # <<>>
         [] OTHER -> rpc[g] \in {"remove", "adding"}

\* what the goroutine does to the map between Lock and Unlock
LockedUpdate(g, map) ==
    CASE g = InitG -> AddEach(map, buildState(listed.links), DOMAIN buildState(listed.links))
      [] g = HandlerG ->
            IF Head(events).Op = "Create" THEN addDevice(map, Head(events).Name).enis
            ELSE removeDevice(map, Head(events).Name).enis
      [] OTHER ->
            IF rpc[g] = "remove"
            THEN RemoveEach(map, {mac \in DOMAIN map : mac \notin DOMAIN currentState[g]})
            ELSE addDeviceWithMACAddress(map, currentState[g][rcur[g]], rcur[g]).enis

\* mutant: Lock returns without waiting for the holder or the readers
Lock_NoWait(g) ==
    /\ AtLock(g)
    /\ updateLock' = g
    /\ gpc' = [gpc EXCEPT ![g] = "locked"]
    /\ UNCHANGED <<enis, links, events, mgr, rpc, linkErr, currentState, rtodo, rcur,
                   watcher, handler, gmap, rlocks, listed>>
    /\ lockFrame

\* updateLock.Lock(): waits until no goroutine holds the lock
Lock(g) ==
    /\ AtLock(g)
    /\ updateLock = 0
    /\ rlocks = {}
    /\ updateLock' = g
    /\ gpc' = [gpc EXCEPT ![g] = "locked"]
    /\ UNCHANGED <<enis, links, events, mgr, rpc, linkErr, currentState, rtodo, rcur,
                   watcher, handler, gmap, rlocks, listed>>
    /\ lockFrame

\* the map operations read the map
LockedLoad(g) ==
    /\ gpc[g] = "locked"
    /\ gmap' = [gmap EXCEPT ![g] = enis]
    /\ gpc' = [gpc EXCEPT ![g] = "loaded"]
    /\ UNCHANGED <<enis, links, events, mgr, rpc, linkErr, currentState, rtodo, rcur,
                   watcher, handler, updateLock, rlocks, listed>>
    /\ lockFrame

\* the map operations write the map
LockedStore(g) ==
    /\ gpc[g] = "loaded"
    /\ enis' = LockedUpdate(g, gmap[g])
    /\ gmap' = [gmap EXCEPT ![g] = EmptyMap]
    /\ gpc' = [gpc EXCEPT ![g] = "stored"]
    /\ UNCHANGED <<links, events, mgr, rpc, linkErr, currentState, rtodo, rcur,
                   watcher, handler, updateLock, rlocks, listed>>
    /\ lockFrame

\* updateLock.Unlock(), and the goroutine goes on: InitStateManager sets the
\* watcher up and starts the handler, the handler waits for the next event,
\* reconcileENIs goes to, or on with, its add loop
Unlock(g) ==
    /\ gpc[g] = "stored"
    /\ updateLock' = 0
    /\ gpc' = [gpc EXCEPT ![g] = "out"]
    /\ CASE g = InitG ->
              /\ \E watcherFails \in BOOLEAN :
                   IF watcherFails
                   THEN /\ mgr' = "failed"
                        /\ watcher' \in {"nil", "open"}
                        /\ UNCHANGED handler
                   ELSE /\ mgr' = "watching"
                        /\ watcher' = "open"
                        /\ handler' = "running"
              /\ listed' = NoListing
              /\ UNCHANGED <<events, rpc, rtodo, rcur>>
         [] g = HandlerG ->
              /\ events' = Tail(events)
              /\ UNCHANGED <<mgr, watcher, handler, listed, rpc, rtodo, rcur>>
         [] OTHER ->
              /\ rpc' = [rpc EXCEPT ![g] = "add"]
              /\ rtodo' = [rtodo EXCEPT ![g] = IF rpc[g] = "remove"
                                               THEN DOMAIN currentState[g]
                                               ELSE @ \ {rcur[g]}]
              /\ rcur' = [rcur EXCEPT ![g] = <<>>]
              /\ UNCHANGED <<mgr, watcher, handler, listed, events>>
    /\ UNCHANGED <<enis, links, linkErr, currentState, gmap, rlocks>>
    /\ lockFrame

\* deviceExists(mac) in the add loop: updateLock.RLock()
RLock(r, mac) ==
    /\ rpc[r] = "add"
    /\ gpc[r] = "out"
    /\ mac \in rtodo[r]
    /\ updateLock = 0
    /\ rlocks' = rlocks \cup {r}
    /\ rcur' = [rcur EXCEPT ![r] = mac]
    /\ gpc' = [gpc EXCEPT ![r] = "rlocked"]
    /\ UNCHANGED <<enis, links, events, mgr, rpc, linkErr, currentState, rtodo,
                   watcher, handler, updateLock, gmap, listed>>
    /\ lockFrame

\* deviceExists reads the map
RLockedRead(r) ==
    /\ gpc[r] = "rlocked"
    /\ gmap' = [gmap EXCEPT ![r] = enis]
    /\ gpc' = [gpc EXCEPT ![r] = "rread"]
    /\ UNCHANGED <<enis, links, events, mgr, rpc, linkErr, currentState, rtodo, rcur,
                   watcher, handler, updateLock, rlocks, listed>>
    /\ lockFrame

\* the deferred RUnlock; a key found in the map is passed over, a key not
\* found is added next
RUnlock(r) ==
    /\ gpc[r] = "rread"
    /\ rlocks' = rlocks \ {r}
    /\ gpc' = [gpc EXCEPT ![r] = "out"]
    /\ gmap' = [gmap EXCEPT ![r] = EmptyMap]
    /\ IF rcur[r] \in DOMAIN gmap[r]
       THEN /\ rtodo' = [rtodo EXCEPT ![r] = @ \ {rcur[r]}]
            /\ rcur' = [rcur EXCEPT ![r] = <<>>]
            /\ UNCHANGED rpc
       ELSE /\ rpc' = [rpc EXCEPT ![r] = "adding"]
            /\ UNCHANGED <<rtodo, rcur>>
    /\ UNCHANGED <<enis, links, events, mgr, linkErr, currentState,
                   watcher, handler, updateLock, listed>>
    /\ lockFrame

\* the add loop is over while no key is in hand
LockedReconcileDone(r) ==
    /\ gpc[r] = "out"
    /\ ReconcileDone(r)

(***************************************************************************)
(* ENIMonitor (package enimonitor, Windows).  Monitor starts a goroutine   *)
(* that selects between the shutdown channel and, by default, a call of    *)
(* Process; Process loops on NotifyAddrChange and WaitForSingleObject and  *)
(* sends one event per interface that is up and not a loopback.  The       *)
(* receiver of notify is always ready.                                     *)
(***************************************************************************)
\* the events sent on the notify channel that the model keeps: the first
\* MaxNotified
MaxNotified == 3

\* what net.Interfaces() may list, in index order
Interfaces ==
    << [Name |-> "Ethernet", FlagUp |-> TRUE, FlagLoopback |-> FALSE],
       [Name |-> "Ethernet 2", FlagUp |-> TRUE, FlagLoopback |-> FALSE],
       [Name |-> "Ethernet 3", FlagUp |-> FALSE, FlagLoopback |-> FALSE],
       [Name |-> "Loopback", FlagUp |-> TRUE, FlagLoopback |-> TRUE] >>

\* the events Process makes of the listed interfaces, in the order listed
RECURSIVE ENIEvents(_, _)
ENIEvents(listed_, i) ==
    IF i > Len(Interfaces) THEN <<>>
    ELSE IF i \in listed_ /\ Interfaces[i].FlagUp /\ ~Interfaces[i].FlagLoopback
         THEN <<Interfaces[i].Name>> \o ENIEvents(listed_, i + 1)
         ELSE ENIEvents(listed_, i + 1)

monFrame ==
    UNCHANGED <<statusVars, resVars, onceVars, fsVars, createVars, eniVars, histVars,
                ckptVars, cgVars, platVars, arnVars, lockVars, transVars, cfgVars>>

\* Monitor(notify): the shutdown channel is made and the goroutine started
Monitor ==
    /\ mpc = "none"
    /\ mpc' = "select"
    /\ UNCHANGED <<shutdown, addrChanged, tosend, notify>>
    /\ monFrame

\* the caller sends true on the unbuffered shutdown channel: it blocks
\* until the goroutine receives
SendShutdown ==
    /\ mpc # "none"
    /\ shutdown = "idle"
    /\ shutdown' = "sending"
    /\ UNCHANGED <<mpc, addrChanged, tosend, notify>>
    /\ monFrame

\* the select finds the sender waiting: case <-shutdown, break done
SelectShutdown ==
    /\ mpc = "select"
    /\ shutdown = "sending"
    /\ shutdown' = "sent"
    /\ mpc' = "done"
    /\ UNCHANGED <<addrChanged, tosend, notify>>
    /\ monFrame

\* the select finds no sender: default, mon.Process(notify), which calls
\* NotifyAddrChange and waits on the event handle
SelectDefault ==
    /\ mpc = "select"
    /\ shutdown # "sending"
    /\ mpc' = "wait"
    /\ UNCHANGED <<shutdown, addrChanged, tosend, notify>>
    /\ monFrame

\* the kernel signals a change of the network addresses
AddrChange ==
    /\ mpc # "none"
    /\ ~addrChanged
    /\ addrChanged' = TRUE
    /\ UNCHANGED <<mpc, shutdown, tosend, notify>>
    /\ monFrame

\* Process: WaitForSingleObject returns WAIT_OBJECT_0 and net.Interfaces()
\* lists the interfaces, or fails and Process panics; with no event to send
\* the for loop of Process goes round
ProcessWake ==
    /\ mpc = "wait"
    /\ addrChanged
    /\ addrChanged' = FALSE
    /\ \/ \E listed_ \in SUBSET (1..Len(Interfaces)) :
            /\ tosend' = ENIEvents(listed_, 1)
            /\ mpc' = IF ENIEvents(listed_, 1) = <<>> THEN "wait" ELSE "send"
       \/ mpc' = "panicked" /\ UNCHANGED tosend
    /\ UNCHANGED <<shutdown, notify>>
    /\ monFrame

\* Process: notify <- event; after the last one the for loop of Process
\* goes round, back to NotifyAddrChange and the wait
ProcessSend ==
    /\ mpc = "send"
    /\ notify' = IF Len(notify) < MaxNotified THEN Append(notify, Head(tosend)) ELSE notify
    /\ tosend' = Tail(tosend)
    /\ mpc' = IF Tail(tosend) = <<>> THEN "wait" ELSE "send"
    /\ UNCHANGED <<shutdown, addrChanged>>
    /\ monFrame

(***************************************************************************)
(* Package config on Windows: parseGMSACapability reads the environment    *)
(* and asks the host whether it is joined to a domain.                     *)
(***************************************************************************)
\* syscall.NetSetupDomainName: of the join statuses NetGetJoinInformation
\* reports (unknown, unjoined, workgroup, domain) the last
NetSetupDomainName == 3

\* strconv.ParseBool accepts these and nothing else
TrueStrings == {"1", "t", "T", "TRUE", "true", "True"}
FalseStrings == {"0", "f", "F", "FALSE", "false", "False"}

\* utils.ParseBool(str, default): the default when str does not parse
ParseBool(str, default) ==
    IF str \in TrueStrings THEN TRUE
    ELSE IF str \in FalseStrings THEN FALSE
    ELSE default

\* isDomainJoined: [status, err]
isDomainJoined ==
    IF joinInfo.err # ""
    THEN [status |-> FALSE, err |-> joinInfo.err]
    ELSE [status |-> joinInfo.status = NetSetupDomainName, err |-> ""]

\* parseGMSACapability: the value returned
parseGMSACapability ==
    IF ParseBool(gmsaEnv, TRUE)
    THEN IF isDomainJoined.err # "" \/ isDomainJoined.status # TRUE
         THEN FALSE
         ELSE TRUE
    ELSE TRUE

cfgFrame ==
    UNCHANGED <<statusVars, resVars, onceVars, fsVars, createVars, eniVars, histVars,
                ckptVars, cgVars, platVars, arnVars, lockVars, transVars, monVars>>

\* the environment of the agent is set up
Setenv(value) ==
    /\ gmsaEnv' = value
    /\ UNCHANGED <<joinInfo, gmsaCall>>
    /\ cfgFrame

\* the host joins or leaves a domain or workgroup, or the query starts failing
HostJoin(info) ==
    /\ joinInfo' = info
    /\ UNCHANGED <<gmsaEnv, gmsaCall>>
    /\ cfgFrame

\* the configuration is loaded
CallParseGMSACapability ==
    /\ gmsaCall' = [op |-> "parseGMSACapability", ret |-> parseGMSACapability,
                    flip |-> ~gmsaCall.flip]
    /\ UNCHANGED <<gmsaEnv, joinInfo>>
    /\ cfgFrame

(***************************************************************************)
(* The cgroup controller (package cgroup).  A *Spec and a *LinuxResources  *)
(* are sets, empty when the pointer is nil; a path is a sequence of its    *)
(* separators and elements, <<>> the empty string; an error is the         *)
(* sequence of its messages, outermost first, <<>> when nil.               *)
(***************************************************************************)
\* config.DefaultTaskCgroupPrefix, "/ecs"
DefaultTaskCgroupPrefix == <<"/", "ecs">>

\* errors.Wrapf(e, msg): nil when e is nil
Wrapf(e, msg) == IF e = <<>> THEN <<>> ELSE <<msg>> \o e

validateCgroupSpec(cgroupSpec) ==
    IF cgroupSpec = {}
    THEN <<"cgroup spec validator: empty cgroup spec">>
    ELSE LET s == CHOOSE x \in cgroupSpec : TRUE
         IN  IF s.Root = <<>>
             THEN <<"cgroup spec validator: invalid cgroup root">>
             ELSE IF s.Specs = {}
                  THEN <<"cgroup spec validator: empty linux resource spec">>
                  ELSE <<>>

\* Create(cgroupSpec): the error returned and the hierarchy afterwards;
\* factory.New makes the cgroup (made) or fails
cgroupCreate(cgroupSpec, made) ==
    IF validateCgroupSpec(cgroupSpec) # <<>>
    THEN [err |-> Wrapf(validateCgroupSpec(cgroupSpec), "cgroup create: failed to validate spec"),
          cgroups |-> cgroupsV1]
    ELSE IF made
         THEN [err |-> <<>>, cgroups |-> cgroupsV1 \cup {s.Root : s \in cgroupSpec}]
         ELSE [err |-> Wrapf(<<"factory.New">>, "cgroup create: unable to create controller"),
               cgroups |-> cgroupsV1]

\* what Remove(cgroupPath) can meet: factory.Load fails when no cgroup is at
\* the path, and may fail when one is; control.Delete() deletes it or fails
RemoveOutcomes(cgroupPath) ==
    IF cgroupPath \in cgroupsV1 THEN {"Load fails", "Delete fails", "deleted"} ELSE {"Load fails"}

\* Remove(cgroupPath): the error returned and the hierarchy afterwards
cgroupRemove(cgroupPath, outcome) ==
    CASE outcome = "Load fails" ->
           [err |-> Wrapf(<<"factory.Load">>, "cgroup remove: unable to obtain controller"),
            cgroups |-> cgroupsV1]
      [] outcome = "Delete fails" ->
           [err |-> <<"control.Delete">>, cgroups |-> cgroupsV1]
      [] outcome = "deleted" ->
           [err |-> <<>>, cgroups |-> cgroupsV1 \ {cgroupPath}]

\* the record of a call of the controller
CgroupCallMade(op, cgroupSpec, cgroupPath, e) ==
    [op |-> op, spec |-> cgroupSpec, path |-> cgroupPath, err |-> e, flip |-> ~cgCall.flip]

NoCgroupCall ==
    [op |-> "none", spec |-> {}, path |-> <<>>, err |-> <<>>, flip |-> FALSE]

cgroupFrame ==
    UNCHANGED <<statusVars, resVars, onceVars, fsVars, createVars, eniVars, histVars, ckptVars,
                platVars, arnVars, lockVars, transVars, monVars, cfgVars>>

CallValidateCgroupSpec(cgroupSpec) ==
    /\ cgCall' = CgroupCallMade("validateCgroupSpec", cgroupSpec, <<>>,
                                validateCgroupSpec(cgroupSpec))
    /\ UNCHANGED cgroupsV1
    /\ cgroupFrame

\* a caller calls Create(cgroupSpec)
CgroupCreate(cgroupSpec) ==
    /\ \E made \in BOOLEAN :
         /\ cgCall' = CgroupCallMade("Create", cgroupSpec, <<>>,
                                     cgroupCreate(cgroupSpec, made).err)
         /\ cgroupsV1' = cgroupCreate(cgroupSpec, made).cgroups
    /\ cgroupFrame

\* a caller calls Remove(cgroupPath)
CgroupRemove(cgroupPath) ==
    /\ \E outcome \in RemoveOutcomes(cgroupPath) :
         /\ cgCall' = CgroupCallMade("Remove", {}, cgroupPath,
                                     cgroupRemove(cgroupPath, outcome).err)
         /\ cgroupsV1' = cgroupRemove(cgroupPath, outcome).cgroups
    /\ cgroupFrame

(***************************************************************************)
(* A task's platform resources: platformResources.Setup and Cleanup over   *)
(* the cgroup controller, the task manager's SetupPlatformResources and    *)
(* CleanupPlatformResources, and the task's cgroup spec.                   *)
(***************************************************************************)
sepForwardSlash == "/"

\* "arn:aws:ecs:region:account-id:task/task-id"
testTaskArn ==
    <<"arn", ":", "aws", ":", "ecs", ":", "region", ":", "account-id", ":", "task", "/", "task-id">>

\* Task.GetID: the part of the ARN's resource after "task/"
GetID(arn) ==
    IF Parse(arn).err # ""
    THEN [err |-> <<"task get-id: malformed taskARN", Parse(arn).err>>, id |-> <<>>]
    ELSE IF Index(Parse(arn).Resource, <<sepForwardSlash>>) = 0
         THEN [err |-> <<"task get-id: malformed task resource">>, id |-> <<>>]
         ELSE [err |-> <<>>, id |-> SplitN(Parse(arn).Resource, sepForwardSlash, 2)[2]]

\* strings.Join([]string{config.DefaultTaskCgroupPrefix, taskID}, sepForwardSlash)
cgroupRoot(taskID) == DefaultTaskCgroupPrefix \o <<sepForwardSlash>> \o taskID

\* control.Exists(cgroupPath)
Exists(cgroupPath) == cgroupPath \in cgroupsV1

\* specs.LinuxResources{}
EmptyLinuxResources == [CPU |-> {}, Memory |-> {}]

\* Task.GetCgroupSpec
GetCgroupSpec ==
    IF task.CgroupSpec = {}
    THEN [err |-> <<"task cgroup: missing spec">>, spec |-> [Root |-> <<>>, Specs |-> {}]]
    ELSE [err |-> <<>>, spec |-> CHOOSE s \in task.CgroupSpec : TRUE]

\* Task.CgroupEnabled
CgroupEnabled == task.cgroupEnabled

\* the record of a call: its error, the hierarchy it found, the calls it made
\* of the controller, and whether it read the task's cgroup spec
PlatformCallMade(op, e, control, readSpec) ==
    [op |-> op, err |-> e, before |-> cgroupsV1, control |-> control,
     readSpec |-> readSpec, flip |-> ~prCall.flip]

NoPlatformCall ==
    [op |-> "none", err |-> <<>>, before |-> {}, control |-> <<>>, readSpec |-> FALSE,
     flip |-> FALSE]

platformFrame ==
    UNCHANGED <<statusVars, resVars, onceVars, fsVars, createVars, eniVars, histVars, ckptVars,
                cgCall, arnVars, lockVars, transVars, monVars, cfgVars>>

\* setupCgroup without the test of Exists
Setup_AlwaysCreate ==
    /\ IF GetID(task.Arn).err # <<>>
       THEN /\ prCall' = PlatformCallMade("Setup",
                           Wrapf(GetID(task.Arn).err,
                                 "platform resources: cgroup setup: unable to obtain taskID"),
                           <<>>, FALSE)
            /\ UNCHANGED cgroupsV1
       ELSE \E made \in BOOLEAN :
              LET created == cgroupCreate({[Root |-> cgroupRoot(GetID(task.Arn).id),
                                            Specs |-> {EmptyLinuxResources}]}, made)
              IN  /\ prCall' = PlatformCallMade("Setup",
                                 Wrapf(created.err,
                                       "platform resources setup: unable to create cgroup"),
                                 <<"Exists", "Create">>, FALSE)
                  /\ cgroupsV1' = created.cgroups
    /\ UNCHANGED <<task, hostConfig>>
    /\ platformFrame

\* platformResources.Setup(task) = setupCgroup(task)
Setup ==
    /\ IF GetID(task.Arn).err # <<>>
       THEN /\ prCall' = PlatformCallMade("Setup",
                           Wrapf(GetID(task.Arn).err,
                                 "platform resources: cgroup setup: unable to obtain taskID"),
                           <<>>, FALSE)
            /\ UNCHANGED cgroupsV1
       ELSE IF Exists(cgroupRoot(GetID(task.Arn).id))
            THEN /\ prCall' = PlatformCallMade("Setup", <<>>, <<"Exists">>, FALSE)
                 /\ UNCHANGED cgroupsV1
            ELSE \E made \in BOOLEAN :
                   LET created == cgroupCreate({[Root |-> cgroupRoot(GetID(task.Arn).id),
                                                 Specs |-> {EmptyLinuxResources}]}, made)
                   IN  /\ prCall' = PlatformCallMade("Setup",
                                      Wrapf(created.err,
                                            "platform resources setup: unable to create cgroup"),
                                      <<"Exists", "Create">>, FALSE)
                       /\ cgroupsV1' = created.cgroups
    /\ UNCHANGED <<task, hostConfig>>
    /\ platformFrame

\* platformResources.Cleanup(task) = cleanupCgroup(task)
PlatformCleanup ==
    /\ IF GetID(task.Arn).err # <<>>
       THEN /\ prCall' = PlatformCallMade("Cleanup",
                           Wrapf(GetID(task.Arn).err,
                                 "platform resources cleanup: unable to obtain taskID"),
                           <<>>, FALSE)
            /\ UNCHANGED cgroupsV1
       ELSE \E outcome \in RemoveOutcomes(cgroupRoot(GetID(task.Arn).id)) :
              LET removed == cgroupRemove(cgroupRoot(GetID(task.Arn).id), outcome)
              IN  /\ prCall' = PlatformCallMade("Cleanup",
                                 Wrapf(removed.err,
                                       "platform resources cleanup: unable to delete cgroup"),
                                 <<"Remove">>, FALSE)
                  /\ cgroupsV1' = removed.cgroups
    /\ UNCHANGED <<task, hostConfig>>
    /\ platformFrame

\* managedTask.setupCgroup
setupCgroup ==
    IF GetCgroupSpec.err # <<>>
    THEN /\ prCall' = PlatformCallMade("SetupPlatformResources",
                        Wrapf(GetCgroupSpec.err, "cgroup setup: unable to obtain cgroup spec"),
                        <<>>, TRUE)
         /\ UNCHANGED cgroupsV1
    ELSE \E made \in BOOLEAN :
           LET created == cgroupCreate({GetCgroupSpec.spec}, made)
           IN  /\ prCall' = PlatformCallMade("SetupPlatformResources",
                              Wrapf(created.err, "cgroup setup: unable to create"),
                              <<"Create">>, TRUE)
               /\ cgroupsV1' = created.cgroups

\* managedTask.cleanupCgroup
cleanupCgroup ==
    IF GetCgroupSpec.err # <<>>
    THEN /\ prCall' = PlatformCallMade("CleanupPlatformResources",
                        Wrapf(GetCgroupSpec.err, "cgroup cleanup: unable to obtain cgroup spec"),
                        <<>>, TRUE)
         /\ UNCHANGED cgroupsV1
    ELSE \E outcome \in RemoveOutcomes(GetCgroupSpec.spec.Root) :
           LET removed == cgroupRemove(GetCgroupSpec.spec.Root, outcome)
           IN  /\ prCall' = PlatformCallMade("CleanupPlatformResources", removed.err,
                                             <<"Remove">>, TRUE)
               /\ cgroupsV1' = removed.cgroups

\* mutant: the cgroup is set up whether or not the task has cgroups enabled
SetupPlatformResources_Ungated ==
    /\ setupCgroup
    /\ UNCHANGED <<task, hostConfig>>
    /\ platformFrame

\* managedTask.SetupPlatformResources
SetupPlatformResources ==
    /\ IF CgroupEnabled
       THEN setupCgroup
       ELSE /\ prCall' = PlatformCallMade("SetupPlatformResources", <<>>, <<>>, FALSE)
            /\ UNCHANGED cgroupsV1
    /\ UNCHANGED <<task, hostConfig>>
    /\ platformFrame

\* managedTask.CleanupPlatformResources
CleanupPlatformResources ==
    /\ IF CgroupEnabled
       THEN cleanupCgroup
       ELSE /\ prCall' = PlatformCallMade("CleanupPlatformResources", <<>>, <<>>, FALSE)
            /\ UNCHANGED cgroupsV1
    /\ UNCHANGED <<task, hostConfig>>
    /\ platformFrame

\* Task.setCgroupSpec
setCgroupSpec ==
    /\ IF GetID(task.Arn).err # <<>>
       THEN /\ prCall' = PlatformCallMade("setCgroupSpec",
                           Wrapf(GetID(task.Arn).err,
                                 "task build platform specific attributes: unable to obtain task id"),
                           <<>>, FALSE)
            /\ UNCHANGED task
       ELSE /\ task' = [task EXCEPT !.CgroupSpec =
                          {[Root |-> cgroupRoot(GetID(task.Arn).id),
                            Specs |-> {EmptyLinuxResources}]}]
            /\ prCall' = PlatformCallMade("setCgroupSpec", <<>>, <<>>, FALSE)
    /\ UNCHANGED <<cgroupsV1, hostConfig>>
    /\ platformFrame

\* Task.updateHostConfigWithCgroupParent(hostConfig); with an empty root the
\* error wrapped is the nil error of GetCgroupSpec
updateHostConfigWithCgroupParent ==
    /\ IF GetCgroupSpec.err # <<>>
       THEN /\ prCall' = PlatformCallMade("updateHostConfigWithCgroupParent",
                           Wrapf(GetCgroupSpec.err,
                                 "task set cgroup parent: unable to get valid cgroup spec"),
                           <<>>, TRUE)
            /\ UNCHANGED hostConfig
       ELSE IF GetCgroupSpec.spec.Root = <<>>
            THEN /\ prCall' = PlatformCallMade("updateHostConfigWithCgroupParent",
                                Wrapf(GetCgroupSpec.err,
                                      "task set cgroup parent: empty cgroup root"),
                                <<>>, TRUE)
                 /\ UNCHANGED hostConfig
            ELSE /\ hostConfig' = [hostConfig EXCEPT !.CgroupParent = GetCgroupSpec.spec.Root]
                 /\ prCall' = PlatformCallMade("updateHostConfigWithCgroupParent", <<>>, <<>>,
                                               TRUE)
    /\ UNCHANGED <<cgroupsV1, task>>
    /\ platformFrame

\* a test builds another task and host config
NewTask(tk) ==
    /\ task' = tk
    /\ hostConfig' = [CgroupParent |-> <<>>]
    /\ prCall' = PlatformCallMade("new", <<>>, <<>>, FALSE)
    /\ UNCHANGED cgroupsV1
    /\ platformFrame

(***************************************************************************)
(* The arn package on its own: a string is put together token by token,    *)
(* parsed, and the result formatted; or an ARN is formatted and the string *)
(* parsed.                                                                 *)
(***************************************************************************)
MaxARNLen == 8

ARNTokens == {"arn", ":", "aws"}

\* the ARN{} of a failed Parse and of a test not begun
NoARN == [err |-> "none"]

arnFrame ==
    UNCHANGED <<statusVars, resVars, onceVars, fsVars, createVars, eniVars, histVars, ckptVars,
                cgVars, platVars, lockVars, transVars, monVars, cfgVars>>

\* the test appends a token to its string
ARNAppend(tok) ==
    /\ arnStage = "compose"
    /\ Len(arnText) < MaxARNLen
    /\ arnText' = Append(arnText, tok)
    /\ UNCHANGED <<arnStage, arnParsed, arnOrig>>
    /\ arnFrame

\* Parse(arnText) of the string put together
ARNParseText ==
    /\ arnStage = "compose"
    /\ arnStage' = "parsed"
    /\ arnParsed' = Parse(arnText)
    /\ arnOrig' = [text |-> arnText, arn |-> NoARN]
    /\ UNCHANGED arnText
    /\ arnFrame

\* String() of the ARN that Parse returned
ARNFormatParsed ==
    /\ arnStage = "parsed"
    /\ arnParsed.err = ""
    /\ arnStage' = "formatted"
    /\ arnText' = ARNString(arnParsed)
    /\ UNCHANGED <<arnParsed, arnOrig>>
    /\ arnFrame

\* String() of an ARN the test builds
ARNFormat(arn) ==
    /\ arnStage = "compose"
    /\ arnText = <<>>
    /\ arnStage' = "printed"
    /\ arnText' = ARNString(arn)
    /\ arnOrig' = [text |-> <<>>, arn |-> arn]
    /\ UNCHANGED arnParsed
    /\ arnFrame

\* Parse of the string String() returned
ARNParsePrinted ==
    /\ arnStage = "printed"
    /\ arnStage' = "reparsed"
    /\ arnParsed' = Parse(arnText)
    /\ UNCHANGED <<arnText, arnOrig>>
    /\ arnFrame

\* the next test begins
ARNReset ==
    /\ arnStage \in {"parsed", "formatted", "reparsed"}
    /\ arnStage' = "compose"
    /\ arnText' = <<>>
    /\ arnParsed' = NoARN
    /\ arnOrig' = [text |-> <<>>, arn |-> NoARN]
    /\ arnFrame

(***************************************************************************)
(* Source keys and initial states                                          *)
(***************************************************************************)
MaxKeys == 2

KeyFile == CredentialSpecColon \o FileScheme \o <<"foo.json">>
KeyS3 == CredentialSpecColon \o
         <<"arn", ":", "aws", ":", "s3", ":", ":", ":", "bucket", "/", "keyname">>
KeySSM == CredentialSpecColon \o
          <<"arn", ":", "aws", ":", "ssm", ":", "us-west-2", ":", "123", ":",
            "parameter", "/", "param">>
KeyDynamo == CredentialSpecColon \o
             <<"arn", ":", "aws", ":", "dynamodb", ":", "us-west-2", ":", "123", ":",
               "table", "/", "t">>
KeyNoARN == CredentialSpecColon \o <<"not-an-arn">>

AllKeys == {KeyFile, KeyS3, KeySSM, KeyDynamo, KeyNoARN}

RequiredSets == {r \in SUBSET AllKeys : Cardinality(r) >= 1 /\ Cardinality(r) <= MaxKeys}

InitResource ==
    /\ taskARN = <<"task1">>
    /\ executionCredentialsID = "exec1"
    /\ createdAt = 0
    /\ desiredStatus = CredentialSpecStatusNone
    /\ knownStatus = CredentialSpecStatusNone
    /\ appliedStatus = CredentialSpecStatusNone
    /\ credSpecMap = EmptyMap
    /\ terminalReason = ""
    /\ onceDone = FALSE
    /\ onceOwner = 0
    /\ doc = <<>>
    /\ original = <<>>
    /\ getter = "idle"
    /\ cgroupsV1 = {}
    /\ cgCall = NoCgroupCall
    /\ task = [Arn |-> testTaskArn, cgroupEnabled |-> FALSE, CgroupSpec |-> {}]
    /\ hostConfig = [CgroupParent |-> <<>>]
    /\ prCall = NoPlatformCall
    /\ arnStage = "compose"
    /\ arnText = <<>>
    /\ arnParsed = NoARN
    /\ arnOrig = [text |-> <<>>, arn |-> NoARN]
    /\ files = EmptyMap
    /\ leakedTemps = FALSE
    /\ pc = [d \in Drivers |-> "idle"]
    /\ todo = [d \in Drivers |-> {}]
    /\ cur = [d \in Drivers |-> <<>>]
    /\ tempFile = [d \in Drivers |-> NoFile]
    /\ err = [d \in Drivers |-> ""]
    /\ ret = [d \in Drivers |-> "none"]
    /\ lastCall = [op |-> "New", arg |-> <<>>, ret |-> TRUE,
                   applied0 |-> CredentialSpecStatusNone,
                   known0 |-> CredentialSpecStatusNone, flip |-> FALSE]
    /\ grants = NoGrants

eth1 == <<"e", "t", "h", "1">>
eth2 == <<"e", "t", "h", "2">>
veth1 == <<"v", "e", "t", "h", "1">>
LinkNames == {eth1, eth2, veth1}

MAC1 == << <<"0", "a">>, <<"1", "b">>, <<"3", "c">>, <<"4", "d">>, <<"5", "e">>, <<"6", "f">> >>
\* HardwareAddr.String() of a link that has no hardware address
NoMAC == <<>>
\* "0a:1b:3c:4d:5e:6ff"
invalidMAC == << <<"0", "a">>, <<"1", "b">>, <<"3", "c">>, <<"4", "d">>, <<"5", "e">>, <<"6", "f", "f">> >>
MACs == {MAC1, NoMAC}

InitENI ==
    /\ enis = EmptyMap
    /\ links = EmptyMap
    /\ events = <<>>
    /\ mgr = "new"
    /\ rpc = [r \in Reconcilers |-> "idle"]
    /\ linkErr = [r \in Reconcilers |-> FALSE]
    /\ currentState = [r \in Reconcilers |-> EmptyMap]
    /\ rtodo = [r \in Reconcilers |-> {}]
    /\ rcur = [r \in Reconcilers |-> <<>>]
    /\ alone = [r \in Reconcilers |-> FALSE]
    /\ ctxDone = FALSE
    /\ watcher = "nil"
    /\ handler = "none"
    /\ updateLock = 0
    /\ wpc = [w \in Workers |-> "start"]
    /\ wlocal = [w \in Workers |-> EmptyMap]
    /\ rdpc = "idle"
    /\ snap = EmptyMap
    /\ seen = NotSeen
    /\ eniCall = NoCall
    /\ transition = [d \in Drivers |-> NoTransition]
    /\ gmsaEnv = ""
    /\ joinInfo = [err |-> "", status |-> 0]
    /\ gmsaCall = [op |-> "none", ret |-> FALSE, flip |-> FALSE]
    /\ mpc = "none"
    /\ shutdown = "idle"
    /\ addrChanged = FALSE
    /\ tosend = <<>>
    /\ notify = <<>>
    /\ gpc = [g \in Goroutines |-> "out"]
    /\ gmap = [g \in Goroutines |-> EmptyMap]
    /\ rlocks = {}
    /\ listed = NoListing

\* Create and Cleanup calls on a resource holding any of the key sets
InitCreate ==
    /\ InitResource
    /\ InitENI
    /\ requiredCredentialSpecs \in RequiredSets

NextCreate ==
    \/ \E d \in Drivers : CreateStep(d) /\ UNCHANGED transVars
    \/ Cleanup

SpecCreate == InitCreate /\ [][NextCreate]_vars

\* ApplyTransition calls, to every status, on a resource holding any of the key sets
NextTransition ==
    \/ \E d \in Drivers, s \in Status : ApplyTransition(d, s)
    \/ \E d \in Drivers : TransitionStep(d)
    \/ Cleanup

SpecTransition == InitCreate /\ [][NextTransition]_vars


(***************************************************************************)
(* The status calls, with Create and Cleanup calls between them, on a      *)
(* resource whose keys need no fetch                                       *)
(***************************************************************************)
\* a decoded snapshot whose statuses are present or nil; the key set is
\* nil, empty or {KeyFile}
Snapshots ==
    [TaskARN : {<<"task1">>},
     CreatedAt : {{}},
     DesiredStatus : {{}} \cup {{s} : s \in Status},
     KnownStatus : {{}} \cup {{s} : s \in Status},
     RequiredCredentialSpecs : {{}, {{}}, {{KeyFile}}},
     ExecutionCredentialsID : {"exec1"}]

\* the task statuses on either side of the two tests of Initialize
RestoredKnown == {TaskCreated - 1, TaskCreated}
RestoredDesired == {TaskRunning, TaskRunning + 1}

InitStatus ==
    /\ InitResource
    /\ InitENI
    /\ requiredCredentialSpecs = {KeyFile}

NextStatus ==
    \/ \E s \in Status : CallSetKnownStatus(s)
    \/ \E s \in Status : CallSetAppliedStatus(s)
    \/ \E s \in Status : CallSetDesiredStatus(s)
    \/ \E k \in RestoredKnown, w \in RestoredDesired : Initialize(k, w)
    \/ \E temp \in Snapshots : UnmarshalJSON(temp)
    \/ Cleanup
    \/ CreateBegin(1) /\ UNCHANGED transVars
    \/ CreateDone(1) /\ UNCHANGED transVars
    \/ \E k \in todo[1] : CreateFile(1, k) /\ UNCHANGED transVars
    \/ SetTerminalReasonDone(1) /\ UNCHANGED transVars
    \/ SetTerminalReasonSlow(1) /\ UNCHANGED transVars
    \/ SetTerminalReasonLock(1) /\ UNCHANGED transVars
    \/ SetTerminalReasonRun(1) /\ UNCHANGED transVars

SpecStatus == InitStatus /\ [][NextStatus]_vars

\* the resource is changed, marshalled and loaded into a fresh resource,
\* while GetTerminalReason is called
NextCheckpoint ==
    \/ \E s \in Status : CallSetKnownStatus(s)
    \/ \E s \in Status : CallSetDesiredStatus(s)
    \/ \E tm \in Times : CallSetCreatedAt(tm)
    \/ CreateBegin(1) /\ UNCHANGED transVars
    \/ CreateDone(1) /\ UNCHANGED transVars
    \/ \E k \in todo[1] : CreateFile(1, k) /\ UNCHANGED transVars
    \/ SetTerminalReasonDone(1) /\ UNCHANGED transVars
    \/ SetTerminalReasonSlow(1) /\ UNCHANGED transVars
    \/ SetTerminalReasonLock(1) /\ UNCHANGED transVars
    \/ SetTerminalReasonRun(1) /\ UNCHANGED transVars
    \/ CallMarshalJSON
    \/ NewResource
    \/ LoadCheckpoint
    \/ GetTerminalReasonBegin
    \/ GetTerminalReasonReturn

SpecCheckpoint == InitStatus /\ [][NextCheckpoint]_vars

\* the manager beside a kernel whose links come and go
InitENIManager ==
    /\ InitResource
    /\ InitENI
    /\ requiredCredentialSpecs = {KeyFile}

NextENI ==
    \/ InitStateManager
    \/ BeginENIUpdate
    \/ CancelENIUpdate
    \/ \E r \in Reconcilers : ReconcileBegin(r)
    \/ \E r \in Reconcilers : ReconcileRemove(r)
    \/ \E r \in Reconcilers : \E mac \in rtodo[r] : ReconcileCheck(r, mac)
    \/ \E r \in Reconcilers : ReconcileAdd(r)
    \/ \E r \in Reconcilers : ReconcileDone(r)
    \/ HandleEvent
    \/ \E name \in LinkNames, mac \in MACs : LinkAdd(name, mac)
    \/ \E name \in LinkNames : LinkDel(name)

SpecENI == InitENIManager /\ [][NextENI]_vars

\* the manager's whole life beside a kernel where one address moves
\* between two eth devices, every goroutine scheduled fairly
NextENILife ==
    \/ InitStateManager
    \/ BeginENIUpdate
    \/ CtxCancel
    \/ LoopReturn
    \/ CloseWatcher
    \/ \E r \in Reconcilers : ReconcileBegin(r)
    \/ \E r \in Reconcilers : ReconcileRemove(r)
    \/ \E r \in Reconcilers : \E mac \in rtodo[r] : ReconcileCheck(r, mac)
    \/ \E r \in Reconcilers : ReconcileAdd(r)
    \/ \E r \in Reconcilers : ReconcileDone(r)
    \/ HandleEvent
    \/ HandleClosed
    \/ \E name \in {eth1, eth2} : LinkAdd(name, MAC1)
    \/ \E name \in {eth1, eth2} : LinkDel(name)

FairENILife ==
    /\ WF_vars(LoopReturn)
    /\ WF_vars(HandleEvent)
    /\ \A r \in Reconcilers :
          /\ WF_vars(ReconcileBegin(r))
          /\ WF_vars(ReconcileRemove(r))
          /\ WF_vars(\E mac \in rtodo[r] : ReconcileCheck(r, mac))
          /\ WF_vars(ReconcileAdd(r))
          /\ WF_vars(ReconcileDone(r))

SpecENILife == InitENIManager /\ [][NextENILife]_vars /\ FairENILife

\* concurrent callers, each adding its own device and then removing it,
\* and a caller of GetAllENIs
NextENIWorkers ==
    \/ \E w \in Workers : WLock(w)
    \/ \E w \in Workers : WLoad(w)
    \/ \E w \in Workers : WStore(w)
    \/ \E w \in Workers : WUnlock(w)
    \/ GetAllENIs
    \/ ReadReturnedMap
    \/ DropReturnedMap

SpecENIWorkers == InitENIManager /\ [][NextENIWorkers]_vars

\* the links that come and go while the locks are watched
LockLinkNames == {eth1, eth2}

\* the manager's goroutines lock by lock, beside a kernel whose links change
NextENILocks ==
    \/ InitList
    \/ BeginENIUpdate
    \/ \E r \in Reconcilers : ReconcileBegin(r)
    \/ \E g \in Goroutines : Lock(g)
    \/ \E g \in Goroutines : LockedLoad(g)
    \/ \E g \in Goroutines : LockedStore(g)
    \/ \E g \in Goroutines : Unlock(g)
    \/ \E r \in Reconcilers : \E mac \in rtodo[r] : RLock(r, mac)
    \/ \E r \in Reconcilers : RLockedRead(r)
    \/ \E r \in Reconcilers : RUnlock(r)
    \/ \E r \in Reconcilers : LockedReconcileDone(r)
    \/ \E name \in LockLinkNames, mac \in MACs : LinkAdd(name, mac)
    \/ \E name \in LockLinkNames : LinkDel(name)

SpecENILocks == InitENIManager /\ [][NextENILocks]_vars

\* values of ECS_GMSA_SUPPORTED: unset, booleans as strconv spells them, and
\* strings that are none
EnvValues == {"", "true", "false", "1", "0", "TRUE", "False", "yes", "off"}

\* what the host may report
JoinInfos ==
    [err : {""}, status : 0..NetSetupDomainName]
       \cup {[err |-> "NetGetJoinInformation failed", status |-> 0]}

NextConfig ==
    \/ \E value \in EnvValues : Setenv(value)
    \/ \E info \in JoinInfos : HostJoin(info)
    \/ CallParseGMSACapability

SpecConfig == InitStatus /\ [][NextConfig]_vars

\* the monitor, its caller and the kernel; the goroutine takes every step
\* it can take
NextMonitor ==
    \/ Monitor
    \/ SendShutdown
    \/ SelectShutdown
    \/ SelectDefault
    \/ AddrChange
    \/ ProcessWake
    \/ ProcessSend

FairMonitor ==
    /\ WF_vars(SelectShutdown)
    /\ WF_vars(SelectDefault)
    /\ WF_vars(ProcessWake)
    /\ WF_vars(ProcessSend)

SpecMonitor == InitENIManager /\ [][NextMonitor]_vars /\ FairMonitor

\* the arguments the direct calls are made with
CallDevices == {eth1, eth2, veth1, SysfsPath(eth1)}
CallMACs == {MAC1, WorkerMAC(1), NoMAC, invalidMAC}

NextENICalls ==
    \/ \E deviceName \in CallDevices, mac \in CallMACs :
          CallAddDeviceWithMACAddress(deviceName, mac)
    \/ \E mac \in CallMACs : CallRemoveDeviceWithMACAddress(mac)
    \/ \E deviceName \in CallDevices : CallAddDevice(deviceName)
    \/ \E deviceName \in CallDevices : CallRemoveDevice(deviceName)
    \/ \E name \in {eth1, eth2}, mac \in {MAC1, NoMAC} : KernelSet(name, mac)

SpecENICalls == InitENIManager /\ [][NextENICalls]_vars

\* the specs the controller is called with: nil, or a root that is empty,
\* under the task prefix or elsewhere, with resources nil or empty
CgroupRoots ==
    {<<>>, <<"/", "ecs", "/", "task-id">>, <<"/", "ecs", "/", "task-2">>,
     <<"/", "non-ecs", "/", "root">>}
LinuxResources == {[CPU |-> {}, Memory |-> {}]}
CgroupSpecs ==
    {{}} \cup {{[Root |-> r, Specs |-> s]} : r \in CgroupRoots, s \in {{}} \cup {{l} : l \in LinuxResources}}

NextCgroup ==
    \/ \E cgroupSpec \in CgroupSpecs : CallValidateCgroupSpec(cgroupSpec)
    \/ \E cgroupSpec \in CgroupSpecs : CgroupCreate(cgroupSpec)
    \/ \E cgroupPath \in CgroupRoots : CgroupRemove(cgroupPath)

SpecCgroup == InitStatus /\ [][NextCgroup]_vars

\* the tasks the tests build: a task ARN that parses or "invalid-task-ARN",
\* cgroups enabled or not, a cgroup spec missing or with an empty root
Tasks ==
    [Arn : {testTaskArn, <<"invalid-task-ARN">>},
     cgroupEnabled : BOOLEAN,
     CgroupSpec : {{}, {[Root |-> <<>>, Specs |-> {EmptyLinuxResources}]}}]

NextPlatform ==
    \/ \E tk \in Tasks : NewTask(tk)
    \/ setCgroupSpec
    \/ Setup
    \/ PlatformCleanup
    \/ SetupPlatformResources
    \/ CleanupPlatformResources
    \/ updateHostConfigWithCgroupParent

SpecPlatform == InitStatus /\ [][NextPlatform]_vars

\* the ARNs the test formats: fields empty, plain or holding a colon
ARNFields == {<<>>, <<"aws">>, <<"aws", ":", "aws">>}
ARNs ==
    [Partition : ARNFields, Service : ARNFields, Region : ARNFields, AccountID : ARNFields,
     Resource : ARNFields \cup {<<":">>}]

NextARN ==
    \/ \E tok \in ARNTokens : ARNAppend(tok)
    \/ ARNParseText
    \/ ARNFormatParsed
    \/ \E arn \in ARNs : ARNFormat(arn)
    \/ ARNParsePrinted
    \/ ARNReset

SpecARN == InitStatus /\ [][NextARN]_vars


(***************************************************************************)
(* Claims about the status state machine (under SpecStatus)                *)
(***************************************************************************)
\* the step is a call op on the status
StatusCall(op) == lastCall' # lastCall /\ lastCall'.op = op

\* the statuses a call handed to SetKnownStatus: none or one
PassedKnown(call) ==
    CASE call.op = "SetKnownStatus" -> {call.arg[1]}
      [] call.op = "Initialize" ->
            IF InitializeResets(call.arg[1], call.arg[2])
            THEN {CredentialSpecStatusNone} ELSE {}
      [] call.op = "UnmarshalJSON" -> call.arg[1]
      [] OTHER -> {}

\* the step is a call that ran SetKnownStatus(s)
KnownSetTo(s) == lastCall' # lastCall /\ s \in PassedKnown(lastCall')

AppliedAhead ==
    appliedStatus = CredentialSpecStatusNone \/ appliedStatus > knownStatus

\* C1, as stated: of the SetAppliedStatus calls made since SetKnownStatus
\* last cleared appliedStatus, at most one returned true.
C1_AtMostOneTrue == grants.none + grants.real <= 1

\* C1, amended: SetAppliedStatus(s) returns true and records s exactly when
\* appliedStatus is NONE, and otherwise returns false and changes nothing;
\* of the calls with s other than NONE made since SetKnownStatus last
\* cleared appliedStatus, at most one returned true.
C1_GateSerializesTransitions ==
    [][/\ StatusCall("SetAppliedStatus") =>
            /\ lastCall'.ret = (appliedStatus = CredentialSpecStatusNone)
            /\ appliedStatus' = IF lastCall'.ret THEN lastCall'.arg[1] ELSE appliedStatus
            /\ UNCHANGED <<knownStatus, desiredStatus, resVars, onceVars>>
       /\ grants'.real <= 1]_vars

\* C1 witness: a second driver's SetAppliedStatus was refused while the
\* first one's transition is in flight
C1_Witness ==
    /\ lastCall.op = "SetAppliedStatus"
    /\ ~lastCall.ret
    /\ grants.real = 1
    /\ appliedStatus = lastCall.applied0
    /\ appliedStatus # lastCall.arg[1]

\* C2, as stated: knownStatus never decreases.
C2_KnownNeverDecreases == [][knownStatus' >= knownStatus]_vars

\* C2, amended: knownStatus decreases only in a call that hands a lower
\* status to SetKnownStatus (SetKnownStatus itself, Initialize resetting to
\* NONE, UnmarshalJSON loading a stored status), and then becomes that
\* status; SetAppliedStatus, SetDesiredStatus, Create and Cleanup never
\* lower it.
C2_KnownLoweredOnlyBySetKnownStatus ==
    [][knownStatus' < knownStatus => KnownSetTo(knownStatus')]_vars

\* C2 witness: Initialize has reset a CREATED resource to NONE
C2_Witness ==
    /\ lastCall.op = "Initialize"
    /\ lastCall.known0 = CredentialSpecCreated
    /\ knownStatus = CredentialSpecStatusNone

\* C3, as stated: appliedStatus is NONE or strictly greater than knownStatus.
C3_AppliedAheadAlways == AppliedAhead

\* C3, amended: every call of SetKnownStatus leaves appliedStatus NONE or
\* strictly greater than knownStatus, and every other step keeps it so,
\* except a SetAppliedStatus(s) that returns true with NONE < s <=
\* knownStatus.
C3_AppliedAheadAfterSetKnownStatus ==
    [][/\ (\E s \in Status : KnownSetTo(s)) => AppliedAhead'
       /\ (/\ AppliedAhead
           /\ ~(/\ StatusCall("SetAppliedStatus")
                /\ lastCall'.ret
                /\ lastCall'.arg[1] # CredentialSpecStatusNone
                /\ lastCall'.arg[1] <= knownStatus))
          => AppliedAhead']_vars

\* C3 witness: SetKnownStatus(CREATED) found REMOVED applied and left it
C3_Witness ==
    /\ lastCall.op = "SetKnownStatus"
    /\ lastCall.arg = <<CredentialSpecCreated>>
    /\ lastCall.applied0 = CredentialSpecRemoved
    /\ appliedStatus = CredentialSpecRemoved
    /\ knownStatus = CredentialSpecCreated

\* C4: a call SetKnownStatus(s) that finds appliedStatus other than NONE and
\* <= s leaves it NONE; one that finds it NONE or > s leaves it unchanged.
C4_SetKnownStatusClearsApplied ==
    [][\A s \in Status :
         KnownSetTo(s) =>
            appliedStatus' = IF /\ appliedStatus # CredentialSpecStatusNone
                                /\ appliedStatus <= s
                             THEN CredentialSpecStatusNone
                             ELSE appliedStatus]_vars

\* C4 witness: SetKnownStatus(s) has cleared an applied status <= s
C4_Witness ==
    /\ lastCall.op = "SetKnownStatus"
    /\ lastCall.applied0 # CredentialSpecStatusNone
    /\ lastCall.applied0 <= lastCall.arg[1]
    /\ appliedStatus = CredentialSpecStatusNone


(***************************************************************************)
(* Claims about Create (under SpecCreate)                                  *)
(***************************************************************************)
\* the step is the return of driver d's Create call
Returns(d) == pc[d] # "idle" /\ pc'[d] = "idle"

\* the call of driver d has failed and is on its way out
Failing(d) == pc[d] \in {"fail", "lock", "once"}

\* the path a fetched entry points to: what follows "credentialspec=file://"
PublishedPath(target) ==
    From(target, Len(CredentialSpecEquals \o FileScheme) + 1)

\* the entries of credSpecMap published by the s3 and ssm branches
FetchedEntries ==
    {k \in DOMAIN credSpecMap :
        HasPrefix(PublishedPath(credSpecMap[k]), CredentialSpecResourceDir)}

\* C5: once terminalReason is non-empty no step changes it, whichever
\* Create calls fail later and however their setTerminalReason calls
\* interleave; GetTerminalReason returns that first string.
C5_TerminalReasonLatched ==
    [][terminalReason # "" =>
          terminalReason' = terminalReason /\ GetTerminalReason' = terminalReason]_vars

\* C5 witness: a reason is latched and a second failing call, holding a
\* different error, is inside Once.Do
C5_Witness ==
    /\ terminalReason # ""
    /\ \E d \in Drivers : pc[d] = "once" /\ err[d] # terminalReason

\* C6: when Create returns nil, the key set of mapping equals the key set
\* of required, so GetTargetMapping succeeds for every required key.
C6_MappingCoversRequired ==
    [][\A d \in Drivers :
         (Returns(d) /\ ret'[d] = "nil") =>
            /\ DOMAIN credSpecMap' = requiredCredentialSpecs'
            /\ \A k \in requiredCredentialSpecs' : GetTargetMapping(k)'.err = ""]_vars

\* C7: a Create call that has met an error processes no further key: it
\* only latches the terminal reason and returns the error; and no step of
\* a Create call removes or changes an entry already in mapping.
C7_FailureStopsCreate ==
    [][\A d \in Drivers :
         /\ err'[d] # "" => Failing(d)'
         /\ Failing(d) =>
               /\ Failing(d)' \/ Returns(d)
               /\ todo'[d] = todo[d] \/ Returns(d)
               /\ Returns(d) =>
                     /\ ret'[d] = "err"
                     /\ onceDone'
                     /\ terminalReason' # ""
         /\ pc'[d] # pc[d] =>
               \A k \in DOMAIN credSpecMap :
                  k \in DOMAIN credSpecMap' /\ credSpecMap'[k] = credSpecMap[k]]_vars

\* C7 witness: the s3 key was fetched and published, then the dynamodb key
\* failed the call: the error is returned and latched, the s3 entry stays
C7_Witness ==
    /\ requiredCredentialSpecs = {KeyS3, KeyDynamo}
    /\ ret = [d \in Drivers |-> IF d = 1 THEN "err" ELSE "none"]
    /\ pc = [d \in Drivers |-> "idle"]
    /\ DOMAIN credSpecMap = {credSpecValue(KeyS3)}
    /\ terminalReason = "unsupported credentialspec ARN dependency, only s3/ssm ARNs are valid"

\* C8: a path a credential spec is materialized at either holds no file or
\* holds the complete payload, at every moment.
C8_FinalPathNeverPartial ==
    \A path \in DOMAIN files : files[path].content = "complete"

\* C9: the file of every entry published by the s3 or ssm branch was
\* written to a temp file, chmod'ed, fsynced and renamed to its path, in
\* that order.
C9_PublishedAfterPersisted ==
    \A k \in FetchedEntries :
        FileAt(PublishedPath(credSpecMap[k])).hist =
            <<"create", "write", "chmod", "sync", "rename">>

(***************************************************************************)
(* Claims about the ENI state manager (under SpecENI)                      *)
(***************************************************************************)
\* the step is the return of reconcileENIs in goroutine r
PassEnds(r) == rpc[r] = "add" /\ rpc'[r] = "idle"

\* C10: when a reconciliation pass ends whose link enumeration succeeded
\* and during which neither the event handler nor another pass touched the
\* map, the map equals the (MAC -> device name) pairs of the enumerated
\* links whose name has the eth prefix.
C10_ReconcileMatchesKernel ==
    [][\A r \in Reconcilers :
         (PassEnds(r) /\ ~linkErr[r] /\ alone[r]) => enis' = currentState[r]]_vars

\* C11: if the manager keeps running with its watcher open, the kernel's
\* links stop changing and no pass sees its enumeration fail, then from
\* some moment on the map equals the kernel's eth links, for good.
C11_ReconcileConverges ==
    (/\ <>[](mgr = "updating")
     /\ [](watcher # "closed")
     /\ <>[][links' = links]_vars
     /\ [](\A r \in Reconcilers : ~linkErr[r]))
        => <>[](enis = buildState(links))

\* C15: once the context is cancelled the running loop returns, and after
\* it has returned no reconciliation pass is started.
C15_CancelStopsLoop ==
    /\ (ctxDone /\ mgr = "updating") ~> (mgr = "stopped")
    /\ [][mgr = "stopped" =>
            \A r \in Reconcilers : rpc[r] = "idle" => rpc'[r] = "idle"]_vars

\* C15 witness: the loop has returned on cancellation while a pass it had
\* started is still running
C15_Witness ==
    /\ ctxDone
    /\ mgr = "stopped"
    /\ \E r \in Reconcilers : rpc[r] # "idle"

\* the step is the handler taking an event off the channel
EventTaken == events # <<>> /\ events' = Tail(events)

\* C16: once the main loop has returned on cancellation, the watcher is
\* closed and no event the handler takes changes the map.
C16_WatcherClosedOnCancel ==
    [][mgr' = "stopped" =>
          /\ watcher' = "closed"
          /\ EventTaken => enis' = enis]_vars

\* C17: the handler goroutine ends when the event channel is closed: it
\* never receives a zero-valued event from the closed channel and loops on.
C17_HandlerExitsOnClose ==
    handler # "spinning"

\* the workers whose device has been added and not removed
Added == {w \in Workers : wpc[w] = "added"}

\* C12: whenever no call is under way, the map holds exactly the pairs of
\* the workers that have added and not removed: with N added and K of
\* them removed its size is N - K, whatever the interleaving was.
C12_NoLostUpdate ==
    updateLock = 0 =>
        /\ DOMAIN enis = {WorkerMAC(w) : w \in Added}
        /\ \A w \in Added : enis[WorkerMAC(w)] = WorkerDevice(w)
        /\ Cardinality(DOMAIN enis) = Cardinality(Added)

\* C12 witness: all have added, then the first has removed
C12_Witness ==
    /\ wpc = [w \in Workers |-> IF w = 1 THEN "removed" ELSE "added"]
    /\ Cardinality(DOMAIN enis) = NumWorkers - 1

\* C13: what a reader finds in the map GetAllENIs gave it is what the map
\* held when it was returned, and no read of it falls inside a writer's
\* critical section.
C13_ReadersSeeSnapshot ==
    rdpc = "holding" => seen.map = snap /\ ~seen.writing

\* the step is a direct call of method op
ENICall(op) == eniCall' # eniCall /\ eniCall'.op = op

\* C14: addDeviceWithMACAddress returns the invalid-device error for a name
\* without the eth prefix and, the name being valid, the invalid-MAC error
\* for an address that does not parse; removeDeviceWithMACAddress returns
\* the invalid-MAC error for such an address; each time the map is left as
\* it was.
C14_InvalidInputRejected ==
    [][/\ (ENICall("addDeviceWithMACAddress") /\ ~HasPrefix(eniCall'.dev, ethPrefix)) =>
             eniCall'.err = invalidDeviceMsg /\ enis' = enis
       /\ (/\ ENICall("addDeviceWithMACAddress")
           /\ HasPrefix(eniCall'.dev, ethPrefix)
           /\ ~isValidMACAddress(eniCall'.mac)) =>
             eniCall'.err = invalidMACMsg /\ enis' = enis
       /\ (ENICall("removeDeviceWithMACAddress") /\ ~isValidMACAddress(eniCall'.mac)) =>
             eniCall'.err = invalidMACMsg /\ enis' = enis]_vars

\* C14 witness: a map holding a record has just refused "0a:1b:3c:4d:5e:6ff"
C14_Witness ==
    /\ eniCall.op = "addDeviceWithMACAddress"
    /\ eniCall.mac = invalidMAC
    /\ eniCall.err = invalidMACMsg
    /\ eniCall.before # EmptyMap
    /\ enis = eniCall.before

\* the step loads the marshalled bytes into the fresh resource
Reloaded == lastCall.op = "new" /\ lastCall'.op = "UnmarshalJSON"

\* C18: the resource loaded from the bytes MarshalJSON returned has the
\* taskARN, executionCredentialsID, required set, mapping, desired and known
\* status of the resource that was marshalled, and its createdAt if that was
\* not the zero time.
C18_RoundTripEqual ==
    [][Reloaded =>
         /\ taskARN' = original[1].taskARN
         /\ executionCredentialsID' = original[1].executionCredentialsID
         /\ requiredCredentialSpecs' = original[1].requiredCredentialSpecs
         /\ credSpecMap' = original[1].credSpecMap
         /\ desiredStatus' = original[1].desiredStatus
         /\ knownStatus' = original[1].knownStatus
         /\ original[1].createdAt # 0 => createdAt' = original[1].createdAt]_vars

\* C19: the field terminalReason is not read by GetTerminalReason while a
\* setTerminalReason call is inside the once-latch, about to write it.
C19_AccessSynchronized ==
    ~(getter = "reading" /\ \E d \in Drivers : pc[d] = "once" /\ onceOwner = d /\ ~onceDone)

\* C20: validateCgroupSpec returns nil exactly for a spec that is not nil,
\* whose root is not empty and begins with the task-cgroup prefix, and whose
\* resources are not nil.
C20_ValidateChecksPrefix ==
    cgCall.op = "validateCgroupSpec" =>
        (cgCall.err = <<>> <=>
            /\ cgCall.spec # {}
            /\ \A s \in cgCall.spec :
                 /\ s.Root # <<>>
                 /\ HasPrefix(s.Root, DefaultTaskCgroupPrefix)
                 /\ s.Specs # {})

\* C21: a Cleanup of a task whose cgroup does not exist returns nil, so a
\* second Cleanup after a successful one returns nil too.
C21_CleanupOfMissingCgroupSucceeds ==
    (/\ prCall.op = "Cleanup"
     /\ GetID(task.Arn).err = <<>>
     /\ cgroupRoot(GetID(task.Arn).id) \notin prCall.before) => prCall.err = <<>>

\* C24: for a task with cgroups disabled, SetupPlatformResources and
\* CleanupPlatformResources return nil, do not read the task's cgroup spec
\* and call neither Create nor Remove of the cgroup controller.
C24_DisabledIsNoOp ==
    (prCall.op \in {"SetupPlatformResources", "CleanupPlatformResources"} /\ ~task.cgroupEnabled) =>
        /\ prCall.err = <<>>
        /\ ~prCall.readSpec
        /\ prCall.control = <<>>
        /\ cgroupsV1 = prCall.before

\* C24 witness: setup was called for a task with cgroups disabled that has a
\* cgroup spec a Create would accept
C24_Witness ==
    /\ prCall.op = "SetupPlatformResources"
    /\ ~task.cgroupEnabled
    /\ validateCgroupSpec(task.CgroupSpec) = <<>>

\* C22: once createdAt is not the zero time, no SetCreatedAt and no
\* UnmarshalJSON call on the resource changes it.
C22_CreatedAtImmutable ==
    [][(createdAt # 0 /\ lastCall' # lastCall /\ lastCall'.op \in {"SetCreatedAt", "UnmarshalJSON"})
          => createdAt' = createdAt]_vars

\* the step deletes an entry of the mapping: a Cleanup call
Cleaned == DOMAIN credSpecMap' # DOMAIN credSpecMap /\ DOMAIN credSpecMap' \subseteq DOMAIN credSpecMap

\* C23: Cleanup deletes every entry of the mapping and leaves the required
\* set, taskARN, executionCredentialsID and the three statuses as they
\* were; after it GetTargetMapping fails for every key.
C23_CleanupClearsMappingOnly ==
    [][Cleaned =>
         /\ credSpecMap' = EmptyMap
         /\ UNCHANGED <<requiredCredentialSpecs, taskARN, executionCredentialsID,
                        desiredStatus, knownStatus, appliedStatus>>
         /\ \A k \in AllKeys :
              GetTargetMapping(k)'.err = "unable to obtain credentialspec mapping"]_vars

\* C23 witness: a Create call returned nil, having published an entry, and
\* the mapping is empty again
C23_Witness ==
    /\ credSpecMap = EmptyMap
    /\ \A d \in Drivers : pc[d] = "idle"
    /\ \E d \in Drivers : ret[d] = "nil"

\* the fields of the ARN that a successful Parse returned
ARNOf(parsed) ==
    [Partition |-> parsed.Partition, Service |-> parsed.Service, Region |-> parsed.Region,
     AccountID |-> parsed.AccountID, Resource |-> parsed.Resource]

\* the string holds the delimiter
HasColon(s) == \E i \in 1..Len(s) : s[i] = arnDelimiter

\* C25: String() of what Parse returned for an accepted string is that
\* string; Parse of String() of an ARN whose partition, service, region and
\* account hold no colon succeeds and returns that ARN.
C25_ParseStringInverse ==
    /\ arnStage = "formatted" => arnText = arnOrig.text
    /\ (/\ arnStage = "reparsed"
        /\ ~HasColon(arnOrig.arn.Partition)
        /\ ~HasColon(arnOrig.arn.Service)
        /\ ~HasColon(arnOrig.arn.Region)
        /\ ~HasColon(arnOrig.arn.AccountID)) =>
           arnParsed.err = "" /\ ARNOf(arnParsed) = arnOrig.arn

\* C25 witness: a string whose resource holds a colon has gone through
\* Parse and String
C25_Witness ==
    /\ arnStage = "formatted"
    /\ HasColon(arnParsed.Resource)
    /\ arnParsed.Partition # <<>>

\* the number of delimiters in s
RECURSIVE Colons(_)
Colons(s) == IF s = <<>> THEN 0 ELSE (IF Head(s) = arnDelimiter THEN 1 ELSE 0) + Colons(Tail(s))

\* what follows the n-th delimiter of s
RECURSIVE AfterColons(_, _)
AfterColons(s, n) ==
    IF n = 0 THEN s
    ELSE AfterColons(Tail(s), IF Head(s) = arnDelimiter THEN n - 1 ELSE n)

\* C26: Parse returns the invalid-prefix error exactly for a string that
\* does not begin with "arn:", the not-enough-sections error exactly for a
\* string that begins with "arn:" and has fewer than six sections, and
\* otherwise an ARN whose resource is all that follows the fifth colon.
C26_ParseErrors ==
    arnStage = "parsed" =>
        /\ arnParsed.err = "arn: invalid prefix" <=> ~HasPrefix(arnOrig.text, <<"arn", ":">>)
        /\ arnParsed.err = "arn: not enough sections" <=>
             (HasPrefix(arnOrig.text, <<"arn", ":">>) /\ Colons(arnOrig.text) + 1 < 6)
        /\ (HasPrefix(arnOrig.text, <<"arn", ":">>) /\ Colons(arnOrig.text) + 1 >= 6) =>
             /\ arnParsed.err = ""
             /\ arnParsed.Resource = AfterColons(arnOrig.text, 5)

\* C26 witness: Parse accepted a string of more than five colons
C26_Witness ==
    /\ arnStage = "parsed"
    /\ arnParsed.err = ""
    /\ Colons(arnOrig.text) > 5

\* C27: when the handler takes a create event named /sys/class/net/<dev>,
\* <dev> beginning with eth, and the kernel has the link <dev> with a valid
\* hardware address, the map afterwards holds that address mapped to <dev>.
C27_CreateEventAddsDevice ==
    [][(/\ EventTaken
        /\ handler = "running"
        /\ Head(events).Op = "Create"
        /\ Head(events).Name = SysfsPath(Base(Head(events).Name))
        /\ HasPrefix(Base(Head(events).Name), ethPrefix)
        /\ Base(Head(events).Name) \in DOMAIN links
        /\ isValidMACAddress(links[Base(Head(events).Name)])) =>
            /\ links[Base(Head(events).Name)] \in DOMAIN enis'
            /\ enis'[links[Base(Head(events).Name)]] = Base(Head(events).Name)]_vars

\* C28: a step of a reconciliation pass whose link enumeration failed leaves
\* the map as it was: the pass removes no record and adds none.
C28_FailedEnumerationKeepsMap ==
    [][\A r \in Reconcilers :
         (linkErr[r] /\ rpc[r] \in {"remove", "adding"} /\ rpc'[r] # rpc[r])
            => enis' = enis]_vars

\* the step is the Create call of driver d handling a file:// key: the call
\* leaves the head of its loop other than by taking a key that needs a fetch
FileStep(d) ==
    /\ pc[d] = "loop"
    /\ todo[d] # {}
    /\ <<pc[d], todo[d], cur[d]>>' # <<pc[d], todo[d], cur[d]>>
    /\ ~(cur'[d] \in todo[d] /\ ~HasPrefix(credSpecValue(cur'[d]), FileScheme))

\* C29: the step of Create that handles a key whose value begins with
\* file:// publishes mapping[key] = "credentialspec=" + value, touches no
\* file, and leaves the call in its loop with the other keys still to
\* process (or, when no other key is left, returns nil).
C29_FileKeyPublishedAndLoopContinues ==
    [][\A d \in Drivers :
         FileStep(d) =>
            \E k \in todo[d] :
               /\ HasPrefix(credSpecValue(k), FileScheme)
               /\ k \in DOMAIN credSpecMap'
               /\ credSpecMap'[k] = CredentialSpecEquals \o credSpecValue(k)
               /\ UNCHANGED <<files, tempFile>>
               /\ \/ pc'[d] = "loop" /\ todo'[d] = todo[d] \ {k}
                  \/ todo[d] = {k} /\ Returns(d) /\ ret'[d] = "nil"]_vars

\* C30: in every state of the manager, however initialization, watcher
\* events and reconciliation passes interleave, every key of the map parses
\* as a MAC address and every value begins with the eth prefix.
C30_EntriesAreValid ==
    \A mac \in DOMAIN enis :
       /\ isValidMACAddress(mac)
       /\ HasPrefix(enis[mac], ethPrefix)

\* C30 witness: the map holds a record while a pass has been through its
\* add loop with an eth link that reports no hardware address, and the
\* kernel also has a link without the prefix
C30_Witness ==
    /\ enis # EmptyMap
    /\ \E r \in Reconcilers :
          /\ rpc[r] = "add"
          /\ rtodo[r] = {}
          /\ NoMAC \in DOMAIN currentState[r]
    /\ \E n \in DOMAIN links : ~HasPrefix(n, ethPrefix)

\* goroutine g is between a Lock and the Unlock that follows it
InWrite(g) == gpc[g] \in {"locked", "loaded", "stored"}

\* goroutine r is inside deviceExists, between RLock and RUnlock
InRead(r) == gpc[r] \in {"rlocked", "rread"}

\* C31: every step of the manager that changes the map is taken by the
\* goroutine that holds the write lock; no two goroutines are inside a
\* mutation at once, and none is inside one while a deviceExists read is
\* under way.
C31_MutationsUnderWriteLock ==
    /\ [][enis' # enis =>
            /\ updateLock # 0
            /\ updateLock' = updateLock
            /\ gpc[updateLock] = "loaded"
            /\ gpc'[updateLock] = "stored"]_vars
    /\ [](\A g \in Goroutines :
            InWrite(g) =>
               /\ updateLock = g
               /\ \A h \in Goroutines \ {g} : ~InWrite(h)
               /\ \A r \in Reconcilers : ~InRead(r))

\* C31 witness: the handler is inside a mutation of a map that holds a
\* record, while one pass waits at the Lock of its remove phase and another
\* is in its add loop
C31_Witness ==
    /\ gpc[HandlerG] = "loaded"
    /\ enis # EmptyMap
    /\ \E r \in Reconcilers : rpc[r] = "remove" /\ gpc[r] = "out"
    /\ \E r \in Reconcilers : rpc[r] = "add" /\ rtodo[r] # {}

\* the step is the return of the ApplyTransition call of driver d
TransitionReturns(d) == transition[d].stage # "done" /\ transition'[d].stage = "done"

\* C32: an ApplyTransition call to a target bound in the table has invoked
\* the bound operation exactly once when it returns, and returns that
\* operation's result; a call to a target without a binding returns an error
\* in a step that invokes nothing and changes no status and no mapping entry.
C32_ApplyTransitionDispatch ==
    [][\A d \in Drivers :
         TransitionReturns(d) =>
            IF transition'[d].target \in DOMAIN resourceStatusToTransitionFunction
            THEN /\ transition'[d].invoked = 1
                 /\ Returns(d)
                 /\ transition'[d].ret = ret'[d]
            ELSE /\ transition'[d].ret = "err"
                 /\ transition'[d].invoked = 0
                 /\ UNCHANGED <<statusVars, credSpecMap, createVars, onceVars, fsVars>>]_vars

\* C32 witness: one call to an unbound target has returned its error, and a
\* call to CREATED has returned nil after publishing a mapping entry
C32_Witness ==
    /\ \E d \in Drivers :
          /\ transition[d].stage = "done"
          /\ transition[d].target = CredentialSpecRemoved
          /\ transition[d].ret = "err"
    /\ \E d \in Drivers :
          /\ transition[d].stage = "done"
          /\ transition[d].target = CredentialSpecCreated
          /\ transition[d].ret = "nil"
    /\ credSpecMap # EmptyMap

\* C33, as stated: an Initialize call for a task whose known status is below
\* CREATED leaves the resource's known status NONE; one for a task that has
\* reached CREATED leaves the known, desired and applied statuses unchanged.
C33_InitializeResetsBelowCreated ==
    [][StatusCall("Initialize") =>
          IF lastCall'.arg[1] < TaskCreated
          THEN knownStatus' = CredentialSpecStatusNone
          ELSE UNCHANGED statusVars]_vars

\* C33, amended: an Initialize call for a task whose known status is below
\* CREATED and whose desired status is at most RUNNING leaves the resource's
\* known status NONE; any other Initialize call leaves the known, desired
\* and applied statuses unchanged.
C33_InitializeResetsRunnableBelowCreated ==
    [][StatusCall("Initialize") =>
          IF lastCall'.arg[1] < TaskCreated /\ lastCall'.arg[2] <= TaskRunning
          THEN knownStatus' = CredentialSpecStatusNone
          ELSE UNCHANGED statusVars]_vars

\* C33 witness: Initialize was called for a task below CREATED that is on
\* its way to STOPPED, and the resource is still CREATED
C33_Witness ==
    /\ lastCall.op = "Initialize"
    /\ lastCall.arg[1] < TaskCreated
    /\ lastCall.arg[2] > TaskRunning
    /\ lastCall.known0 = CredentialSpecCreated
    /\ knownStatus = CredentialSpecCreated

\* C34: a step in which writeS3File fails (at the temp-file creation, the
\* writer callback, chmod, fsync or the rename) leaves the call without an
\* open temp file and the directory without a temp file left behind, leaves
\* the final path as it was, and the call fails with the error it met.
C34_FailedWriteRemovesTemp ==
    [][\A d \in Drivers :
         (pc[d] \in {"s3temp", "s3rename"} /\ pc'[d] = "fail") =>
            /\ tempFile'[d] = NoFile
            /\ leakedTemps' = leakedTemps
            /\ files' = files
            /\ err'[d] \in ExternalErrors]_vars

\* C35: once the caller is sending true on the shutdown channel, the send
\* completes and the monitoring goroutine terminates (unless a panic of
\* Process ends the whole process first); and after the send has completed
\* no event is sent on the notify channel.
C35_ShutdownStopsMonitor ==
    /\ (shutdown = "sending") ~>
          ((shutdown = "sent" /\ mpc = "done") \/ mpc = "panicked")
    /\ [][shutdown = "sent" => (notify' = notify /\ tosend' = tosend)]_vars

\* C36: a call of updateHostConfigWithCgroupParent on a task whose cgroup
\* spec is missing or has an empty root returns an error and leaves the host
\* config as it was; any other call sets CgroupParent to the spec's root,
\* which is not empty, and returns nil.
C36_CgroupParentSetOrError ==
    [][(prCall' # prCall /\ prCall'.op = "updateHostConfigWithCgroupParent") =>
          IF task.CgroupSpec = {} \/ GetCgroupSpec.spec.Root = <<>>
          THEN /\ prCall'.err # <<>>
               /\ hostConfig' = hostConfig
          ELSE /\ prCall'.err = <<>>
               /\ hostConfig'.CgroupParent = GetCgroupSpec.spec.Root
               /\ hostConfig'.CgroupParent # <<>>]_vars

\* C37: parseGMSACapability returns true exactly when ECS_GMSA_SUPPORTED is
\* enabled (unset, or not a boolean, counts as enabled) and the host is
\* reported as joined to a domain; it returns false when the setting
\* disables the feature, when the domain-join query fails and when the host
\* is not joined.
C37_GMSANeedsEnvAndDomain ==
    [][(gmsaCall' # gmsaCall) =>
          gmsaCall'.ret = (/\ gmsaEnv \notin FalseStrings
                           /\ joinInfo.err = ""
                           /\ joinInfo.status = NetSetupDomainName)]_vars

\* the records InitStateManager is to make of the links enumerated: one for
\* each link whose name begins with eth and whose address parses
EthRecords(linkList) ==
    LET ok == {n \in DOMAIN linkList :
                  HasPrefix(n, ethPrefix) /\ isValidMACAddress(linkList[n])}
    IN  [mac \in {linkList[n] : n \in ok} |-> CHOOSE n \in ok : linkList[n] = mac]

\* C38: when the link enumeration of InitStateManager fails, the call
\* returns the error with the map unchanged, no watcher and no handler
\* goroutine; when it succeeds the call goes on whatever the links are, and
\* the map it leaves holds exactly the enumerated links whose name begins
\* with eth and whose address is valid.
C38_InitRecordsEthLinks ==
    [][/\ (mgr = "new" /\ listed'.err) =>
             /\ mgr' = "failed"
             /\ enis' = enis
             /\ watcher' = "nil"
             /\ handler' = "none"
             /\ \A g \in Goroutines : ~AtLock(g)'
       /\ (mgr = "new" /\ mgr' # "new" /\ ~listed'.err) => AtLock(InitG)'
       /\ (mgr = "init" /\ mgr' # "init") => enis' = EthRecords(listed.links)]_vars

\* C38 witness: InitStateManager has been through an enumeration that held
\* a link it recorded and an eth link without a valid address, which it
\* skipped, and is about to release the lock
C38_Witness ==
    /\ mgr = "init"
    /\ gpc[InitG] = "stored"
    /\ enis # EmptyMap
    /\ \E n \in DOMAIN listed.links :
          HasPrefix(n, ethPrefix) /\ ~isValidMACAddress(listed.links[n])

\* C39: a Setup for a task whose cgroup already exists at <prefix>/<taskID>
\* returns nil, calls only Exists of the controller and leaves the cgroups as
\* they were, so repeated Setup calls create the cgroup at most once; a Setup
\* for a task whose ID cannot be derived returns an error and calls the
\* controller not at all.
C39_SetupOfExistingCgroupSkipsCreate ==
    [][(prCall' # prCall /\ prCall'.op = "Setup") =>
          /\ GetID(task.Arn).err # <<>> =>
                /\ prCall'.err # <<>>
                /\ prCall'.control = <<>>
                /\ cgroupsV1' = cgroupsV1
          /\ (GetID(task.Arn).err = <<>> /\ cgroupRoot(GetID(task.Arn).id) \in cgroupsV1) =>
                /\ prCall'.err = <<>>
                /\ prCall'.control = <<"Exists">>
                /\ cgroupsV1' = cgroupsV1]_vars

\* C39 witness: Setup was called for a task whose cgroup existed before the
\* call
C39_Witness ==
    /\ prCall.op = "Setup"
    /\ GetID(task.Arn).err = <<>>
    /\ cgroupRoot(GetID(task.Arn).id) \in prCall.before
    /\ prCall.control = <<"Exists">>

\* C40: removeDevice(name) with a name that has the eth prefix removes
\* exactly the records whose device name is name, leaves every other record
\* as it was and returns nil, also when no record matched; with a name
\* without the eth prefix it returns the InvalidDevice error and changes
\* nothing.
C40_RemoveDeviceRemovesExactlyItsRecords ==
    eniCall.op = "removeDevice" =>
        IF HasPrefix(eniCall.dev, ethPrefix)
        THEN /\ eniCall.err = ""
             /\ DOMAIN enis = {mac \in DOMAIN eniCall.before : eniCall.before[mac] # eniCall.dev}
             /\ \A mac \in DOMAIN enis : enis[mac] = eniCall.before[mac]
        ELSE /\ eniCall.err = invalidDeviceMsg
             /\ enis = eniCall.before

\* C40 witness: removeDevice removed the record of its device and left the
\* record of another device in the map
C40_Witness ==
    /\ eniCall.op = "removeDevice"
    /\ HasPrefix(eniCall.dev, ethPrefix)
    /\ \E mac \in DOMAIN eniCall.before : eniCall.before[mac] = eniCall.dev
    /\ enis # EmptyMap

=============================================================================
